---- MODULE Spec2Model ----
(***************************************************************************)
(* A model of the authorization core of AgentAuth: the UCAN and Biscuit    *)
(* delegation tokens, the rules engine with its usage counters, and the    *)
(* decision service with its consent cache and authorization cache.        *)
(*                                                                         *)
(* Each subsystem has its own next-state relation and specification over   *)
(* the one set of variables; a subsystem's actions leave the variables of  *)
(* the others unchanged.                                                   *)
(*                                                                         *)
(* Strings that the code matches by pattern (merchant names, resources)    *)
(* are sequences of chunks: <<"slots", ".", "gambling", ".", "com">> is    *)
(* "slots.gambling.com".  Money amounts are naturals.  Time is a tick      *)
(* counter; dates are day numbers.                                         *)
(***************************************************************************)
EXTENDS Integers, Sequences, FiniteSets, TLC

(***************************************************************************)
(* Bounds of the model.                                                    *)
(***************************************************************************)
\* Longest proof chain of UCANs (root included) that is built.
MaxChain == 3
\* Largest max_amount caveat / restricted_amount tried in the UCAN model.
MaxUcanAmount == 2
\* Last tick of the UCAN clock.
MaxUcanTime == 2
\* Most attenuation blocks on one Biscuit, most tokens minted, largest amount.
MaxBlocks == 2
MaxBiscuits == 3
MaxBiscuitAmount == 2
\* Rules engine: last day, most rules created (merchant and category
\* together), most requests recorded, days per month.
MaxDay == 2
MaxRules == 2
MaxRequests == 3
DaysPerMonth == 2
MaxConsents == 3
MaxCodes == 2
MaxVerifies == 2
MaxTicks == 3
\* The consent cache is bounded at 10000 entries in the source; the model
\* scales that capacity down.
CacheCapacity == 2
\* The write-behind queue holds 10000 records and a tick of the flush loop
\* takes up to 100 of them in the source; the model scales both down.
QueueCapacity == 3
FlushBatchSize == 2
MaxQueued == 5
MaxFlushes == 3

\* None where the code expects a number, and where it expects a list.
NoAmount == 0 - 1
NoList == [given |-> FALSE, list |-> <<>>]
SomeList(l) == [given |-> TRUE, list |-> l]

VARIABLES
    ucan_now,       \* datetime.now().timestamp() as seen by the UCAN service
    ucan_chain,     \* the latest UCAN with its proofs: <<root, ..., leaf>>
    ucan_outcome,   \* how the last UCANService call ended
    ucan_validation \* history: the last call of validate, what was presented and the result

VARIABLES
    biscuit,        \* the Biscuit object last built (token_id 0: none yet)
    biscuit_wire,   \* the serialized token last produced (token_id 0: none yet)
    biscuit_parsed, \* the Biscuit object last returned by Biscuit.deserialize
    biscuit_minted, \* how many token ids have been drawn
    biscuit_verified, \* history: the last call of verify_token, its transaction and result
    biscuit_parent  \* history: the token attenuate was last called on, as the call left it

VARIABLES
    today,              \* date.today(), a day number
    spending_limits,    \* committed rows of table spending_limits (one principal)
    usage_tracking,     \* committed rows of table usage_tracking (user_id unique)
    merchant_rules,     \* committed rows of table merchant_rules, oldest first
    category_rules,     \* committed rows of table category_rules, oldest first
    authorization_logs, \* committed rows of table authorization_logs
    session,            \* per request handler: its request and its AsyncSession
    granted             \* history: the day and the sum of the amounts allowed on it

VARIABLES
    now,            \* datetime.now(timezone.utc), in seconds
    consents,       \* rows of table consents; consent_id i is row i
    consent_cache,  \* _consent_cache, its entries in the dict's insertion order
    cache_op,       \* history: the last call of _cache_consent, cache before and after
    auth_cache,     \* _auth_cache: authorization code -> record
    authorizations, \* rows of table authorizations, authorization_code unique
    response,       \* the AuthorizeResponse last returned
    verify_log      \* history: the verification calls made, with their results

VARIABLES
    auth_queue,                 \* _auth_queue, oldest record first
    queued_total,               \* history: how many records were ever appended
    background_worker_started,  \* _background_worker_started
    flush_task,                 \* the task running flush_auth_queue: "none", "sleeping", "cancelled"
    app_running,                \* the application is between startup and shutdown
    flush_log                   \* history: the ticks of flush_auth_queue that took a batch

VARIABLES
    consent_check   \* history: the last call of _check_consent_cached and its result

ucan_vars == <<ucan_now, ucan_chain, ucan_outcome, ucan_validation>>

biscuit_vars == <<biscuit, biscuit_wire, biscuit_parsed, biscuit_minted,
                  biscuit_verified, biscuit_parent>>

rules_vars == <<today, spending_limits, usage_tracking, merchant_rules, category_rules,
                authorization_logs, session, granted>>

auth_vars == <<now, consents, consent_cache, cache_op, auth_cache, authorizations,
               response, verify_log>>

queue_vars == <<auth_queue, queued_total, background_worker_started, flush_task,
                app_running, flush_log>>

check_vars == <<consent_check>>

vars == <<ucan_vars, biscuit_vars, rules_vars, auth_vars, queue_vars, check_vars>>

\* What the actions of one subsystem leave alone.
not_ucan_vars == <<biscuit_vars, rules_vars, auth_vars, queue_vars, check_vars>>
not_biscuit_vars == <<ucan_vars, rules_vars, auth_vars, queue_vars, check_vars>>
not_rules_vars == <<ucan_vars, biscuit_vars, auth_vars, queue_vars, check_vars>>
not_auth_vars == <<ucan_vars, biscuit_vars, rules_vars, queue_vars, check_vars>>
not_queue_vars == <<ucan_vars, biscuit_vars, rules_vars, now, consents, consent_cache,
                    cache_op, auth_cache, response, verify_log, check_vars>>

(***************************************************************************)
(* Helpers on sequences.                                                   *)
(***************************************************************************)
Range(s) == {s[i] : i \in DOMAIN s}

IsPrefix(p, s) ==
    /\ Len(p) <= Len(s)
    /\ \A i \in 1..Len(p) : p[i] = s[i]

\* s.rstrip("*") on a chunk sequence.
RECURSIVE RStripStar(_)
RStripStar(s) ==
    IF s # <<>> /\ s[Len(s)] = "*"
    THEN RStripStar(SubSeq(s, 1, Len(s) - 1))
    ELSE s

(***************************************************************************)
(* UCAN service (app/services/ucan_service.py).                            *)
(*                                                                         *)
(* A capability is [resource, action, caveats]; caveats is the dict of     *)
(* the code restricted to the one key the service ever writes,             *)
(* max_amount, with NoAmount for a dict without that key.  A UCAN is its   *)
(* payload [exp, att]; its prf list holds the parent's JWT, so a token is  *)
(* modelled together with its proofs as the chain root..leaf.              *)
(***************************************************************************)
ConsentResource == <<"agentauth", ":", "consent", ":", "c1">>
WildcardResource == <<"agentauth", ":", "consent", ":", "*">>
OtherResource == <<"agentauth", ":", "consent", ":", "c2">>

UcanResources == {ConsentResource, WildcardResource, OtherResource}
UcanActions == {"purchase", "search", "*"}
UcanAmounts == 0..MaxUcanAmount

Cap(resource, action, max_amount) ==
    [resource |-> resource, action |-> action,
     caveats |-> [max_amount |-> max_amount]]

\* Capability._resource_matches
ResourceMatches(child, parent) ==
    IF parent = <<"*">> \/ (parent # <<>> /\ parent[Len(parent)] = "*")
    THEN IsPrefix(RStripStar(parent), child) \/ child = parent
    ELSE child = parent

\* Capability.is_subset_of: resource and action only, the caveats are not read.
IsSubsetOf(self, parent) ==
    /\ ResourceMatches(self.resource, parent.resource)
    /\ ~(parent.action # "*" /\ self.action # parent.action)

\* UCAN.is_expired
UcanIsExpired(ucan, t) == t > ucan.exp

\* UCANBuilder.build with_lifetime: exp = now + lifetime
BuildUcan(att, lifetime, t) == [exp |-> t + lifetime, att |-> att]

\* The capability lists handed to create_root_ucan.
RootCapLists ==
    {<<Cap(ConsentResource, a, m)>> : a \in {"purchase", "*"}, m \in 1..MaxUcanAmount}
    \cup {<<Cap(WildcardResource, "purchase", 1)>>,
          <<Cap(ConsentResource, "purchase", 1), Cap(ConsentResource, "search", 1)>>}

\* The capability lists handed to delegate: None, the empty list, or one capability.
DelegateCapLists ==
    {NoList, SomeList(<<>>)}
    \cup {SomeList(<<Cap(r, a, m)>>) : r \in {ConsentResource, OtherResource},
                                       a \in {"purchase", "search"},
                                       m \in (1..MaxUcanAmount) \cup {NoAmount}}

\* UCANService.create_root_ucan
CreateRootUcan(caps, lifetime) ==
    /\ ucan_chain' = <<BuildUcan(caps, lifetime, ucan_now)>>
    /\ ucan_outcome' = "ok"
    /\ UNCHANGED <<ucan_now, ucan_validation, not_ucan_vars>>

\* "if capabilities:" is false for None and for the empty list.
Truthy(capabilities) == capabilities.given /\ capabilities.list # <<>>

\* UCANService.delegate raises UCANCapabilityError: some requested
\* capability is a subset of no capability of the parent.
DelegateRejects(parent, capabilities) ==
    /\ Truthy(capabilities)
    /\ \E i \in DOMAIN capabilities.list :
           ~\E p \in Range(parent.att) : IsSubsetOf(capabilities.list[i], p)

\* The capabilities UCANService.delegate gives the derived token.
DelegateAtt(parent, capabilities) ==
    IF Truthy(capabilities) THEN capabilities.list ELSE parent.att

\* UCANService.delegate applied to the token chain[1..k]
Delegate(k, capabilities, lifetime) ==
    LET parent == ucan_chain[k]
    IN  /\ k \in DOMAIN ucan_chain
        /\ k < MaxChain
        /\ IF UcanIsExpired(parent, ucan_now)
           THEN /\ ucan_outcome' = "UCANValidationError"
                /\ UNCHANGED ucan_chain
           ELSE IF DelegateRejects(parent, capabilities)
           THEN /\ ucan_outcome' = "UCANCapabilityError"
                /\ UNCHANGED ucan_chain
           ELSE /\ ucan_chain' = Append(SubSeq(ucan_chain, 1, k),
                                        BuildUcan(DelegateAtt(parent, capabilities),
                                                  lifetime, ucan_now))
                /\ ucan_outcome' = "ok"
        /\ UNCHANGED <<ucan_now, ucan_validation, not_ucan_vars>>

\* The capability list delegate_to_sub_agent builds from the parent.
SubAgentCaps(parent, restricted_amount, restricted_actions) ==
    IF Truthy(restricted_actions)
    THEN LET acts == restricted_actions.list
             pairs == [i \in 1..(Len(parent.att) * Len(acts)) |->
                          <<parent.att[((i - 1) \div Len(acts)) + 1],
                            acts[((i - 1) % Len(acts)) + 1]>>]
             keep(pr) == pr[2] = pr[1].action \/ pr[1].action = "*"
             build(pr) ==
                 Cap(pr[1].resource, pr[2],
                     IF restricted_amount # NoAmount /\ restricted_amount # 0
                     THEN restricted_amount
                     ELSE pr[1].caveats.max_amount)
         IN  SomeList([j \in 1..Len(SelectSeq(pairs, keep)) |->
                           build(SelectSeq(pairs, keep)[j])])
    ELSE NoList

\* delegate_to_sub_agent
DelegateToSubAgent(k, restricted_amount, restricted_actions) ==
    /\ k \in DOMAIN ucan_chain
    /\ Delegate(k, SubAgentCaps(ucan_chain[k], restricted_amount, restricted_actions), 1)

UcanTick ==
    /\ ucan_now < MaxUcanTime
    /\ ucan_now' = ucan_now + 1
    /\ UNCHANGED <<ucan_chain, ucan_outcome, ucan_validation, not_ucan_vars>>

\* What a holder may do to the JWT of an issued token before presenting it:
\* nothing, raise the max_amount caveat of its capabilities, extend its exp,
\* raise the caveat inside its proof, or make a token up.  base64 and JSON
\* carry any payload, and the altered values are ones no issued token has.
Tampers == {"none", "caveats", "expiry", "proofs", "fabricated"}

RaiseCaveats(ucan) ==
    [ucan EXCEPT !.att = [i \in DOMAIN ucan.att |->
                             Cap(ucan.att[i].resource, ucan.att[i].action,
                                 MaxUcanAmount + 1)]]

Tamper(chain, kind) ==
    CASE kind = "none" -> chain
      [] kind = "caveats" -> [chain EXCEPT ![Len(chain)] = RaiseCaveats(chain[Len(chain)])]
      [] kind = "expiry" -> [chain EXCEPT ![Len(chain)].exp = MaxUcanTime + 3]
      [] kind = "proofs" -> [chain EXCEPT ![1] = RaiseCaveats(chain[1])]
      [] kind = "fabricated" ->
             <<[exp |-> MaxUcanTime + 3, att |-> <<Cap(WildcardResource, "*", NoAmount)>>]>>

\* The signature part of to_jwt: build never signs, so it is empty
JwtSignature(ucan) == ""

\* The capabilities validate is asked for: none, or resource and action.
RequiredCapabilities ==
    {NoList, SomeList(<<Cap(ConsentResource, "purchase", NoAmount)>>)}

\* A validation that reads the presented token and none of its proofs.
ValidateResultLeafOnly(chain, signature, required, t) ==
    LET ucan == chain[Len(chain)]
    IN  IF UcanIsExpired(ucan, t) THEN "UCANValidationError"
        ELSE IF required.given
                /\ ~\E c \in Range(ucan.att) : IsSubsetOf(required.list[1], c)
        THEN "UCANCapabilityError"
        ELSE "True"

\* UCANService.validate of the token chain[1..Len(chain)] presented with a
\* signature part: "True", or the exception raised. The signature part is
\* parsed by from_jwt and not read again.
RECURSIVE ValidateResult(_, _, _, _)
ValidateResult(chain, signature, required, t) ==
    LET ucan == chain[Len(chain)]
    IN  IF UcanIsExpired(ucan, t) THEN "UCANValidationError"
        ELSE IF required.given
                /\ ~\E c \in Range(ucan.att) : IsSubsetOf(required.list[1], c)
        THEN "UCANCapabilityError"
        ELSE IF Len(chain) > 1
                /\ ValidateResult(SubSeq(chain, 1, Len(chain) - 1),
                                  JwtSignature(chain[Len(chain) - 1]), NoList, t) # "True"
        THEN "UCANValidationError"
        ELSE "True"

NoValidation ==
    [tamper |-> "none", signature |-> "", k |-> 0, result |-> "None",
     action |-> "None", amount |-> NoAmount]

\* UCANService.validate called with the issued token chain[1..k] after the
\* holder tampered with it, under a signature part of the holder's choice.
Validate(k, kind, signature, required) ==
    /\ k \in DOMAIN ucan_chain
    /\ kind = "proofs" => k > 1
    /\ kind = "none" => signature = JwtSignature(ucan_chain[k])
    /\ ucan_validation' =
           [tamper |-> kind, signature |-> signature, k |-> k,
            result |-> ValidateResult(Tamper(SubSeq(ucan_chain, 1, k), kind),
                                      signature, required, ucan_now),
            action |-> "None", amount |-> NoAmount]
    /\ UNCHANGED <<ucan_now, ucan_chain, ucan_outcome, not_ucan_vars>>

\* create_agent_ucan: one capability on the consent per allowed action, each
\* with the max_amount caveat; lifetime_hours=24 is one tick of the clock.
CreateAgentUcan(max_amount, allowed_actions) ==
    LET actions == IF Truthy(allowed_actions) THEN allowed_actions.list
                   ELSE <<"purchase">>
    IN  CreateRootUcan([i \in DOMAIN actions |->
                           Cap(ConsentResource, actions[i], max_amount)], 1)

\* verify_agent_capability(ucan, action, amount) of the token last issued:
\* validate with the required capability agentauth:consent:* / action; the
\* amount is a parameter the body does not read.
VerifyAgentCapability(action, amount) ==
    /\ ucan_chain # <<>>
    /\ ucan_validation' =
           [tamper |-> "none", signature |-> JwtSignature(ucan_chain[Len(ucan_chain)]),
            k |-> Len(ucan_chain),
            result |-> ValidateResult(ucan_chain,
                                      JwtSignature(ucan_chain[Len(ucan_chain)]),
                                      SomeList(<<Cap(WildcardResource, action, NoAmount)>>),
                                      ucan_now),
            action |-> action, amount |-> amount]
    /\ UNCHANGED <<ucan_now, ucan_chain, ucan_outcome, not_ucan_vars>>

UcanInit ==
    /\ ucan_now = 0
    /\ ucan_chain = <<>>
    /\ ucan_outcome = "ok"
    /\ ucan_validation = NoValidation

UcanNext ==
    \/ \E caps \in RootCapLists, lt \in 1..2 : CreateRootUcan(caps, lt)
    \/ \E k \in 1..MaxChain, caps \in DelegateCapLists, lt \in 1..2 :
           Delegate(k, caps, lt)
    \/ \E k \in 1..MaxChain, amt \in UcanAmounts \cup {NoAmount},
          acts \in {NoList, SomeList(<<"purchase">>), SomeList(<<"search">>),
                    SomeList(<<"purchase", "search">>)} :
           DelegateToSubAgent(k, amt, acts)
    \/ UcanTick

\* Agent tokens issued and asked for an action and an amount over time.
AgentNext ==
    \/ \E m \in 1..MaxUcanAmount,
          acts \in {NoList, SomeList(<<"search">>), SomeList(<<"purchase", "search">>)} :
           CreateAgentUcan(m, acts)
    \/ \E action \in {"purchase", "search"}, amount \in 0..(MaxUcanAmount + 1) :
           VerifyAgentCapability(action, amount)
    \/ UcanTick

\* Tokens issued, delegated and presented for validation over time.
UcanValidateNext ==
    \/ \E caps \in RootCapLists, lifetime \in 1..2 : CreateRootUcan(caps, lifetime)
    \/ \E k \in 1..MaxChain :
           Delegate(k, SomeList(<<Cap(ConsentResource, "purchase", 1)>>), 1)
    \/ \E k \in 1..MaxChain, kind \in Tampers, signature \in {"", "forged"},
          required \in RequiredCapabilities :
           Validate(k, kind, signature, required)
    \/ UcanTick

(***************************************************************************)
(* Biscuit service (app/services/biscuit_service.py).                      *)
(*                                                                         *)
(* A fact is [name, terms], a check is the rule text as a chunk sequence,  *)
(* a block is [facts, rules, checks, context].  The wire form is the dict  *)
(* that to_dict builds; json.dumps/base64 and their inverses carry that    *)
(* dict unchanged, so the wire form is the dict itself.  token_id is the   *)
(* ordinal of the mint (secrets.token_hex draws a fresh id) and created_at *)
(* the time of the mint, one tick per mint.                                *)
(***************************************************************************)
BiscuitAmounts == 1..MaxBiscuitAmount
BiscuitMerchants == {"delta", "united"}
BiscuitCategories == {"travel"}

\* BiscuitBlock()
EmptyBlock == [facts |-> <<>>, rules |-> <<>>, checks |-> <<>>, context |-> "None"]

NoBiscuit ==
    [token_id |-> 0, created_at |-> 0, root_key_id |-> "default", authority |-> EmptyBlock, blocks |-> <<>>]

\* BiscuitFact.to_datalog
FactToDatalog(f) == <<f.name, "(">> \o f.terms \o <<")">>

\* BiscuitRule.to_datalog
RuleToDatalog(r) == <<r.head, " <- ">> \o r.body

\* BiscuitCheck.to_datalog
CheckToDatalog(c) == <<"check if ">> \o c

\* BiscuitBlock.to_dict
BlockToDict(b) ==
    [facts |-> [i \in DOMAIN b.facts |-> FactToDatalog(b.facts[i])],
     rules |-> [i \in DOMAIN b.rules |-> RuleToDatalog(b.rules[i])],
     checks |-> [i \in DOMAIN b.checks |-> CheckToDatalog(b.checks[i])],
     context |-> b.context]

\* Biscuit.to_dict / Biscuit.serialize
BiscuitSerialize(t) ==
    [token_id |-> t.token_id,
     created_at |-> t.created_at,
     root_key_id |-> t.root_key_id,
     authority |-> BlockToDict(t.authority),
     blocks |-> [i \in DOMAIN t.blocks |-> BlockToDict(t.blocks[i])]]

\* The block Biscuit.deserialize builds from a block's dict: the context
\* alone is read, facts, rules and checks start empty.
BlockFromDict(d) ==
    [facts |-> <<>>, rules |-> <<>>, checks |-> <<>>, context |-> d.context]

\* Biscuit.deserialize
BiscuitDeserialize(w) ==
    [token_id |-> w.token_id,
     created_at |-> w.created_at,
     root_key_id |-> w.root_key_id,
     authority |-> BlockFromDict(w.authority),
     blocks |-> [i \in DOMAIN w.blocks |-> BlockFromDict(w.blocks[i])]]

\* The checks add_check is given, as chunk sequences.
AmountCheck(m) == <<"amount($amt), $amt <= ", m>>
TimeCheck(e) == <<"time($time), $time < ", e>>
MerchantsCheck(ms) == <<"merchant in ", ms>>
CategoriesCheck(cs) == <<"category in ", cs>>

\* BiscuitService.create_token: the authority block
AuthorityBlock(user_id, consent_id, permissions, max_amount, expires_at) ==
    [facts |-> <<[name |-> "user", terms |-> <<user_id>>],
                 [name |-> "consent", terms |-> <<consent_id>>]>>
               \o [i \in DOMAIN permissions |->
                      [name |-> "permission", terms |-> <<permissions[i]>>]]
               \o <<[name |-> "max_amount", terms |-> <<max_amount>>],
                    [name |-> "expires_at", terms |-> <<expires_at>>]>>,
     rules |-> <<>>,
     checks |-> <<TimeCheck(expires_at), AmountCheck(max_amount)>>,
     context |-> "None"]

\* BiscuitService.create_token
BiscuitCreateTokenResult(id, permissions, max_amount, expires_at) ==
    [token_id |-> id,
     created_at |-> id,
     root_key_id |-> "default",
     authority |-> AuthorityBlock("user_123", "consent_abc", permissions, max_amount, expires_at),
     blocks |-> <<>>]

\* BiscuitService.attenuate_token: the block of restrictions
AttenuationBlock(new_max_amount, allowed_merchants, allowed_categories) ==
    [facts |-> <<>>,
     rules |-> <<>>,
     checks |-> (IF new_max_amount # NoAmount THEN <<AmountCheck(new_max_amount)>> ELSE <<>>)
                \o (IF allowed_merchants # {} THEN <<MerchantsCheck(allowed_merchants)>> ELSE <<>>)
                \o (IF allowed_categories # {} THEN <<CategoriesCheck(allowed_categories)>> ELSE <<>>),
     context |-> "None"]

\* An attenuate that appends the block to the list of the token it is called on.
BiscuitAfterAttenuateInPlace(t, block) ==
    [t EXCEPT !.blocks = Append(t.blocks, block)]

\* The token Biscuit.attenuate is called on, after the call: attenuate reads
\* self.authority, self.blocks and self.root_key_id and assigns none of them;
\* self.blocks + [block] builds a new list.
BiscuitAfterAttenuate(t, block) ==
    t

\* Biscuit.attenuate
BiscuitAttenuate(t, block, id) ==
    [token_id |-> id,
     created_at |-> id,
     root_key_id |-> t.root_key_id,
     authority |-> t.authority,
     blocks |-> Append(t.blocks, block)]

\* BiscuitService.create_token
BiscuitCreateToken(permissions, max_amount, expires_at) ==
    /\ biscuit_minted < MaxBiscuits
    /\ biscuit_minted' = biscuit_minted + 1
    /\ biscuit' = BiscuitCreateTokenResult(biscuit_minted + 1, permissions, max_amount, expires_at)
    /\ UNCHANGED <<biscuit_wire, biscuit_parsed, biscuit_verified, biscuit_parent,
                   not_biscuit_vars>>

\* BiscuitService.attenuate_token
BiscuitAttenuateToken(new_max_amount, allowed_merchants, allowed_categories) ==
    /\ biscuit.token_id # 0
    /\ Len(biscuit.blocks) < MaxBlocks
    /\ biscuit_minted < MaxBiscuits
    /\ biscuit_minted' = biscuit_minted + 1
    /\ biscuit' = BiscuitAttenuate(biscuit,
                      AttenuationBlock(new_max_amount, allowed_merchants, allowed_categories),
                      biscuit_minted + 1)
    /\ biscuit_parent' = BiscuitAfterAttenuate(biscuit,
                             AttenuationBlock(new_max_amount, allowed_merchants,
                                              allowed_categories))
    /\ UNCHANGED <<biscuit_wire, biscuit_parsed, biscuit_verified, not_biscuit_vars>>

\* token.serialize() followed by Biscuit.deserialize (as verify_delegation_token
\* and attenuate_for_merchant do with the token string they are handed)
BiscuitRoundTrip ==
    /\ biscuit.token_id # 0
    /\ biscuit_wire' = BiscuitSerialize(biscuit)
    /\ biscuit_parsed' = BiscuitDeserialize(BiscuitSerialize(biscuit))
    /\ UNCHANGED <<biscuit, biscuit_minted, biscuit_verified, biscuit_parent,
                   not_biscuit_vars>>

\* Authorizer._evaluate_check
EvaluateCheck(check, facts) == TRUE

\* Authorizer.authorize: "True", "False", or the exception raised
AuthorizerAuthorize(policies, facts, t) ==
    IF \E i \in DOMAIN t.authority.checks : ~EvaluateCheck(t.authority.checks[i], facts)
    THEN "BiscuitAuthorizationError"
    ELSE IF \E b \in DOMAIN t.blocks : \E i \in DOMAIN t.blocks[b].checks :
                ~EvaluateCheck(t.blocks[b].checks[i], facts)
    THEN "BiscuitAuthorizationError"
    ELSE IF "deny" \in policies THEN "False"
    ELSE "True"

NoVerification ==
    [called |-> FALSE, amount |-> 0, merchant |-> "None", category |-> "None",
     time |-> 0, result |-> "None"]

\* BiscuitService.verify_token of the token last built, at the given time
BiscuitVerifyToken(amount, merchant_id, category, time) ==
    LET facts == [amount |-> amount, merchant |-> merchant_id, time |-> time,
                  category |-> category]
    IN  /\ biscuit.token_id # 0
        /\ biscuit_verified' =
               [called |-> TRUE, amount |-> amount, merchant |-> merchant_id,
                category |-> category, time |-> time,
                result |-> AuthorizerAuthorize({"allow"}, facts, biscuit)]
        /\ UNCHANGED <<biscuit, biscuit_wire, biscuit_parsed, biscuit_minted,
                       biscuit_parent, not_biscuit_vars>>

BiscuitInit ==
    /\ biscuit = NoBiscuit
    /\ biscuit_wire = BiscuitSerialize(NoBiscuit)
    /\ biscuit_parsed = NoBiscuit
    /\ biscuit_minted = 0
    /\ biscuit_verified = NoVerification
    /\ biscuit_parent = NoBiscuit

BiscuitNext ==
    \/ \E perms \in {<<"purchase">>, <<"purchase", "search">>},
          m \in BiscuitAmounts, e \in 1..2 : BiscuitCreateToken(perms, m, e)
    \/ \E m \in BiscuitAmounts \cup {NoAmount},
          ms \in SUBSET BiscuitMerchants, cs \in SUBSET BiscuitCategories :
           BiscuitAttenuateToken(m, ms, cs)
    \/ BiscuitRoundTrip

\* Tokens created, attenuated and verified for transactions.
BiscuitVerifyNext ==
    \/ \E m \in BiscuitAmounts : BiscuitCreateToken(<<"purchase">>, m, 2)
    \/ \E m \in {1, NoAmount}, ms \in {{}, {"delta"}}, cs \in {{}, BiscuitCategories} :
           BiscuitAttenuateToken(m, ms, cs)
    \/ \E a \in {1, MaxBiscuitAmount + 1}, mid \in BiscuitMerchants,
          c \in {"None", "gambling"}, time \in {0, 2} :
           BiscuitVerifyToken(a, mid, c, time)

(***************************************************************************)
(* Rules engine (app/services/rules_engine.py) with the tables of          *)
(* app/models/limits.py and the endpoints of app/api/rules.py and          *)
(* app/api/limits.py, for one principal.                                   *)
(*                                                                         *)
(* Every request handler works in an AsyncSession of its own: rows it      *)
(* adds or changes are pending until its commit.  A day is a number, and   *)
(* the (month, year) of day d is the number d \div DaysPerMonth.           *)
(***************************************************************************)
Handlers == {1, 2}

\* Defaults of the SpendingLimit columns.
DEFAULT_DAILY_LIMIT == 1000
DEFAULT_MONTHLY_LIMIT == 10000
DEFAULT_PER_TRANSACTION_LIMIT == 500
DEFAULT_REQUIRE_APPROVAL_ABOVE == 100

\* SpendingLimit(user_id=user_id)
DefaultLimits ==
    [daily_limit |-> DEFAULT_DAILY_LIMIT,
     monthly_limit |-> DEFAULT_MONTHLY_LIMIT,
     per_transaction_limit |-> DEFAULT_PER_TRANSACTION_LIMIT,
     require_approval_above |-> DEFAULT_REQUIRE_APPROVAL_ABOVE,
     is_active |-> TRUE]

\* UsageTracking(user_id=user_id), with date.today as the default of both dates
DefaultUsage(day) ==
    [daily_spent |-> 0, monthly_spent |-> 0,
     daily_transaction_count |-> 0, monthly_transaction_count |-> 0,
     last_daily_reset |-> day, last_monthly_reset |-> day]

\* (date.month, date.year) of a day
MonthOf(day) == day \div DaysPerMonth

\* str.lower() on the chunks the model uses
LowerChunk(c) ==
    CASE c = "Slots" -> "slots"
      [] c = "Gambling" -> "gambling"
      [] OTHER -> c

Lower(str) == [i \in DOMAIN str |-> LowerChunk(str[i])]

\* fnmatch.fnmatch of lower-cased chunk sequences: "*" matches any run of chunks
RECURSIVE FnMatch(_, _)
FnMatch(name, pat) ==
    IF pat = <<>> THEN name = <<>>
    ELSE IF Head(pat) = "*"
         THEN FnMatch(name, Tail(pat)) \/ (name # <<>> /\ FnMatch(Tail(name), pat))
         ELSE name # <<>> /\ Head(name) = Head(pat) /\ FnMatch(Tail(name), Tail(pat))

NoMerchant == <<>>
NoCategory == ""

SlotsGambling == <<"slots", ".", "gambling", ".", "com">>
SlotsGamblingUpper == <<"Slots", ".", "gambling", ".", "com">>
AmazonCom == <<"amazon", ".", "com">>
AnyGamblingPattern == <<"*", ".", "gambling", ".", "com">>

\* AuthorizationDecision
Decision(allowed, reason, requires_human_approval, rules_evaluated) ==
    [allowed |-> allowed, reason |-> reason,
     requires_human_approval |-> requires_human_approval,
     rules_evaluated |-> rules_evaluated, raised |-> FALSE]

\* evaluate left by an exception instead of a decision
Raised(exception) ==
    [allowed |-> FALSE, reason |-> exception, requires_human_approval |-> FALSE,
     rules_evaluated |-> 0, raised |-> TRUE]

NoDecision == Decision(FALSE, "none", FALSE, 0)

NoRequest == [amount |-> 0, merchant |-> NoMerchant, category |-> NoCategory]

\* A handler between requests: no session open.  An open session holds the
\* rows its queries returned (limits, usage, merchant_rows, category_rows),
\* whether it created the limits and usage rows itself, and the attributes of
\* the usage row it has assigned (dirty).
IdleSession ==
    [pc |-> "idle", request |-> NoRequest, decision |-> NoDecision,
     new_limits |-> FALSE, new_usage |-> FALSE,
     limits |-> DefaultLimits, usage |-> DefaultUsage(0), dirty |-> {},
     merchant_rows |-> <<>>, category_rows |-> <<>>]

ActiveRows(rows) == SelectSeq(rows, LAMBDA r : r.is_active)

\* The rows of a sequence in the order perm
Reorder(rows, perm) == [i \in DOMAIN rows |-> rows[perm[i]]]

\* The orders in which a SELECT without ORDER BY may return rows.
RowOrders(rows) == {Reorder(rows, perm) : perm \in Permutations(DOMAIN rows)}

\* RulesEngine._check_merchant_rules on the rows as the query returned them
RECURSIVE CheckMerchantRules(_, _)
CheckMerchantRules(rules, merchant) ==
    IF rules = <<>> THEN "None"
    ELSE IF FnMatch(Lower(merchant), Lower(Head(rules).merchant_pattern))
         THEN Head(rules).action
         ELSE CheckMerchantRules(Tail(rules), merchant)

\* The rows the query of _check_category_rules selects
CategoryMatches(rules, category) ==
    SelectSeq(rules, LAMBDA r : r.is_active /\ r.category = LowerChunk(category))

\* RulesEngine._check_category_rules; scalar_one_or_none raises on two rows
CheckCategoryRules(rules, category) ==
    LET rows == CategoryMatches(rules, category)
    IN  IF Len(rows) = 0 THEN "None"
        ELSE IF Len(rows) = 1 THEN rows[1].action
        ELSE "MultipleResultsFound"

\* _maybe_reset_counters zeroing the monthly counters with the daily ones.
MaybeResetCountersTogether(usage, day) ==
    IF usage.last_daily_reset < day
    THEN [usage EXCEPT !.daily_spent = 0, !.daily_transaction_count = 0,
                       !.last_daily_reset = day,
                       !.monthly_spent = 0, !.monthly_transaction_count = 0,
                       !.last_monthly_reset = day]
    ELSE usage

\* RulesEngine._maybe_reset_counters
MaybeResetCounters(usage, day) ==
    LET daily == IF usage.last_daily_reset < day
                 THEN [usage EXCEPT !.daily_spent = 0,
                                    !.daily_transaction_count = 0,
                                    !.last_daily_reset = day]
                 ELSE usage
    IN  IF MonthOf(daily.last_monthly_reset) # MonthOf(day)
        THEN [daily EXCEPT !.monthly_spent = 0,
                           !.monthly_transaction_count = 0,
                           !.last_monthly_reset = day]
        ELSE daily

\* The attributes _maybe_reset_counters assigns
ResetDirty(usage, day) ==
    (IF usage.last_daily_reset < day
     THEN {"daily_spent", "daily_transaction_count", "last_daily_reset"} ELSE {})
    \cup
    (IF MonthOf(usage.last_monthly_reset) # MonthOf(day)
     THEN {"monthly_spent", "monthly_transaction_count", "last_monthly_reset"} ELSE {})

\* An evaluate whose limit stages compare the amounts spent so far, without
\* the amount of the request.
EvaluateStagesWithoutAmount(limits, usage, request, rules, categories) ==
    LET n1 == 1
        n2 == n1 + (IF request.merchant # NoMerchant THEN 1 ELSE 0)
        n3 == n2 + (IF request.category # NoCategory THEN 1 ELSE 0)
        n4 == n3 + 1
        n5 == n4 + 1
        n6 == n5 + (IF limits.require_approval_above \notin {NoAmount, 0} THEN 1 ELSE 0)
    IN  IF request.amount > limits.per_transaction_limit
        THEN Decision(FALSE, "per_transaction_limit", FALSE, n1)
        ELSE IF request.merchant # NoMerchant
                /\ CheckMerchantRules(rules, request.merchant) = "block"
        THEN Decision(FALSE, "merchant_blocked", FALSE, n2)
        ELSE IF request.category # NoCategory
                /\ CheckCategoryRules(categories, request.category) = "MultipleResultsFound"
        THEN Raised("MultipleResultsFound")
        ELSE IF request.category # NoCategory
                /\ CheckCategoryRules(categories, request.category) = "block"
        THEN Decision(FALSE, "category_blocked", FALSE, n3)
        ELSE IF usage.daily_spent > limits.daily_limit
        THEN Decision(FALSE, "daily_limit", FALSE, n4)
        ELSE IF usage.monthly_spent > limits.monthly_limit
        THEN Decision(FALSE, "monthly_limit", FALSE, n5)
        ELSE Decision(TRUE, "All rules passed",
                      limits.require_approval_above \notin {NoAmount, 0}
                          /\ request.amount > limits.require_approval_above,
                      n6)

\* RulesEngine.evaluate from "1. Check per-transaction limit" on: limits and
\* usage are the rows it holds, rules the merchant rules as its query returned them.
EvaluateStages(limits, usage, request, rules, categories) ==
    LET n1 == 1
        n2 == n1 + (IF request.merchant # NoMerchant THEN 1 ELSE 0)
        n3 == n2 + (IF request.category # NoCategory THEN 1 ELSE 0)
        n4 == n3 + 1
        n5 == n4 + 1
        n6 == n5 + (IF limits.require_approval_above \notin {NoAmount, 0} THEN 1 ELSE 0)
    IN  IF request.amount > limits.per_transaction_limit
        THEN Decision(FALSE, "per_transaction_limit", FALSE, n1)
        ELSE IF request.merchant # NoMerchant
                /\ CheckMerchantRules(rules, request.merchant) = "block"
        THEN Decision(FALSE, "merchant_blocked", FALSE, n2)
        ELSE IF request.category # NoCategory
                /\ CheckCategoryRules(categories, request.category) = "MultipleResultsFound"
        THEN Raised("MultipleResultsFound")
        ELSE IF request.category # NoCategory
                /\ CheckCategoryRules(categories, request.category) = "block"
        THEN Decision(FALSE, "category_blocked", FALSE, n3)
        ELSE IF usage.daily_spent + request.amount > limits.daily_limit
        THEN Decision(FALSE, "daily_limit", FALSE, n4)
        ELSE IF usage.monthly_spent + request.amount > limits.monthly_limit
        THEN Decision(FALSE, "monthly_limit", FALSE, n5)
        ELSE Decision(TRUE, "All rules passed",
                      limits.require_approval_above \notin {NoAmount, 0}
                          /\ request.amount > limits.require_approval_above,
                      n6)

\* Some other handler's session holds an uncommitted INSERT into
\* usage_tracking: an INSERT of the same user_id waits for it.
UsageInsertPending(h) ==
    \E o \in Handlers \ {h} : session[o].pc # "idle" /\ session[o].new_usage

\* The requests in flight and recorded.
RequestsMade ==
    Len(authorization_logs) + Cardinality({h \in Handlers : session[h].pc # "idle"})

\* RulesEngine.evaluate
Evaluate(h, request, rules) ==
    LET active == ActiveRows(spending_limits)
        limits == IF active = <<>> THEN DefaultLimits ELSE active[1]
        loaded == IF usage_tracking = <<>> THEN DefaultUsage(today) ELSE usage_tracking[1]
        usage == MaybeResetCounters(loaded, today)
        decision == IF Len(active) > 1
                    THEN Raised("MultipleResultsFound")
                    ELSE EvaluateStages(limits, usage, request, rules, category_rules)
    IN  /\ session[h].pc = "idle"
        /\ RequestsMade < MaxRequests
        /\ rules \in RowOrders(ActiveRows(merchant_rules))
        /\ usage_tracking = <<>> => ~UsageInsertPending(h)
        /\ session' = [session EXCEPT ![h] =
               [pc |-> "evaluated", request |-> request, decision |-> decision,
                new_limits |-> (active = <<>>),
                new_usage |-> (Len(active) <= 1 /\ usage_tracking = <<>>),
                limits |-> limits,
                merchant_rows |-> IF Len(active) <= 1 /\ request.merchant # NoMerchant
                                  THEN rules ELSE <<>>,
                category_rows |-> IF Len(active) <= 1 /\ request.category # NoCategory
                                  THEN CategoryMatches(category_rules, request.category)
                                  ELSE <<>>,
                usage |-> IF Len(active) > 1 THEN loaded ELSE usage,
                dirty |-> IF Len(active) > 1 THEN {} ELSE ResetDirty(loaded, today)]]
        /\ granted' = IF ~decision.allowed THEN granted
                      ELSE IF granted.day = today
                      THEN [granted EXCEPT !.sum = @ + request.amount]
                      ELSE [day |-> today, sum |-> request.amount]
        /\ UNCHANGED <<today, spending_limits, usage_tracking, merchant_rules,
                       category_rules, authorization_logs, not_rules_vars>>

\* RulesEngine.evaluate of a first request while another handler's INSERT
\* into usage_tracking is not yet committed: the limits row is flushed
\* (spending_limits.user_id is not unique), then the flush of the usage row
\* waits on the unique index of usage_tracking.user_id.
EvaluateWaits(h, request) ==
    /\ session[h].pc = "idle"
    /\ RequestsMade < MaxRequests
    /\ ActiveRows(spending_limits) = <<>>
    /\ usage_tracking = <<>>
    /\ UsageInsertPending(h)
    /\ session' = [session EXCEPT ![h] =
           [IdleSession EXCEPT !.pc = "waiting", !.request = request,
                               !.new_limits = TRUE]]
    /\ UNCHANGED <<today, spending_limits, usage_tracking, merchant_rules,
                   category_rules, authorization_logs, granted, not_rules_vars>>

\* The waiting flush ends when the other transaction does: after its commit
\* the INSERT breaks the unique index and evaluate raises IntegrityError;
\* after its rollback the INSERT goes through and evaluate goes on.
EvaluateResumes(h) ==
    LET request == session[h].request
        usage == MaybeResetCounters(DefaultUsage(today), today)
        decision == IF usage_tracking # <<>>
                    THEN Raised("IntegrityError")
                    ELSE EvaluateStages(DefaultLimits, usage, request, <<>>,
                                        category_rules)
    IN  /\ session[h].pc = "waiting"
        /\ ~UsageInsertPending(h)
        /\ session' = [session EXCEPT ![h] =
               [IdleSession EXCEPT !.pc = "evaluated", !.request = request,
                                   !.decision = decision, !.new_limits = TRUE,
                                   !.new_usage = (usage_tracking = <<>>),
                                   !.usage = usage]]
        /\ granted' = IF ~decision.allowed THEN granted
                      ELSE IF granted.day = today
                      THEN [granted EXCEPT !.sum = @ + request.amount]
                      ELSE [day |-> today, sum |-> request.amount]
        /\ UNCHANGED <<today, spending_limits, usage_tracking, merchant_rules,
                       category_rules, authorization_logs, not_rules_vars>>

\* The usage row as record_transaction leaves it in the session.
RecordedUsage(usage, request, decision) ==
    IF decision.allowed
    THEN [usage EXCEPT !.daily_spent = @ + request.amount,
                       !.monthly_spent = @ + request.amount,
                       !.daily_transaction_count = @ + 1,
                       !.monthly_transaction_count = @ + 1]
    ELSE usage

RecordDirty(decision) ==
    IF decision.allowed
    THEN {"daily_spent", "monthly_spent", "daily_transaction_count",
          "monthly_transaction_count"}
    ELSE {}

\* The usage_tracking table after the session's commit: an INSERT of the
\* row the session created, or an UPDATE of the attributes it assigned.
CommitUsage(table, new_usage, usage, dirty) ==
    IF new_usage /\ table = <<>> THEN <<usage>>
    ELSE IF table = <<>> THEN table
    ELSE <<[a \in DOMAIN table[1] |-> IF a \in dirty THEN usage[a] ELSE table[1][a]]>>

\* The spending_limits table after the session's commit.
CommitLimits(table, new_limits) ==
    IF new_limits THEN Append(table, DefaultLimits) ELSE table

\* RulesEngine.record_transaction, in the session of the evaluate before it
RecordTransaction(h) ==
    LET s == session[h]
    IN  /\ s.pc = "evaluated"
        /\ ~s.decision.raised
        /\ usage_tracking' =
               CommitUsage(usage_tracking, s.new_usage,
                           RecordedUsage(s.usage, s.request, s.decision),
                           s.dirty \cup RecordDirty(s.decision))
        /\ spending_limits' = CommitLimits(spending_limits, s.new_limits)
        /\ authorization_logs' =
               Append(authorization_logs,
                      IF s.decision.allowed THEN "approved" ELSE "denied")
        /\ session' = [session EXCEPT ![h] = IdleSession]
        /\ UNCHANGED <<today, merchant_rules, category_rules, granted, not_rules_vars>>

\* The handler ends without record_transaction (the request was denied, or
\* evaluate raised): the session closes and its pending changes are dropped.
CloseSession(h) ==
    /\ session[h].pc = "evaluated"
    /\ ~session[h].decision.allowed
    /\ session' = [session EXCEPT ![h] = IdleSession]
    /\ UNCHANGED <<today, spending_limits, usage_tracking, merchant_rules,
                   category_rules, authorization_logs, granted, not_rules_vars>>

RulesCreated == Len(merchant_rules) + Len(category_rules)

\* POST /v1/rules/merchants
CreateMerchantRule(pattern, action) ==
    /\ RulesCreated < MaxRules
    /\ merchant_rules' = Append(merchant_rules,
           [merchant_pattern |-> pattern, action |-> action, is_active |-> TRUE])
    /\ UNCHANGED <<today, spending_limits, usage_tracking, category_rules,
                   authorization_logs, session, granted, not_rules_vars>>

\* DELETE /v1/rules/merchants/{rule_id}
DeleteMerchantRule(i) ==
    /\ i \in DOMAIN merchant_rules
    /\ merchant_rules[i].is_active
    /\ merchant_rules' = [merchant_rules EXCEPT ![i].is_active = FALSE]
    /\ UNCHANGED <<today, spending_limits, usage_tracking, category_rules,
                   authorization_logs, session, granted, not_rules_vars>>

\* POST /v1/rules/categories
CreateCategoryRule(category, action) ==
    /\ RulesCreated < MaxRules
    /\ category_rules' = Append(category_rules,
           [category |-> LowerChunk(category), action |-> action, is_active |-> TRUE])
    /\ UNCHANGED <<today, spending_limits, usage_tracking, merchant_rules,
                   authorization_logs, session, granted, not_rules_vars>>

\* DELETE /v1/rules/categories/{rule_id}
DeleteCategoryRule(i) ==
    /\ i \in DOMAIN category_rules
    /\ category_rules[i].is_active
    /\ category_rules' = [category_rules EXCEPT ![i].is_active = FALSE]
    /\ UNCHANGED <<today, spending_limits, usage_tracking, merchant_rules,
                   authorization_logs, session, granted, not_rules_vars>>

\* The fields of a SpendingLimitsUpdate that are given overwrite the row's.
ApplyUpdate(row, update) ==
    [a \in DOMAIN row |->
        IF a \in DOMAIN update /\ update[a] # NoAmount THEN update[a] ELSE row[a]]

\* PUT /v1/limits
UpdateLimits(update) ==
    /\ Len(spending_limits) <= 1
    /\ spending_limits' =
           <<ApplyUpdate(IF spending_limits = <<>> THEN DefaultLimits
                         ELSE spending_limits[1], update)>>
    /\ UNCHANGED <<today, usage_tracking, merchant_rules, category_rules,
                   authorization_logs, session, granted, not_rules_vars>>

\* POST /v1/limits/reset with reset_type "daily" or "monthly"
ResetUsage(reset_type) ==
    /\ usage_tracking # <<>>
    /\ usage_tracking' =
           IF reset_type = "daily"
           THEN [usage_tracking EXCEPT ![1].daily_spent = 0,
                                       ![1].daily_transaction_count = 0,
                                       ![1].last_daily_reset = today]
           ELSE [usage_tracking EXCEPT ![1].monthly_spent = 0,
                                       ![1].monthly_transaction_count = 0,
                                       ![1].last_monthly_reset = today]
    /\ UNCHANGED <<today, spending_limits, merchant_rules, category_rules,
                   authorization_logs, session, granted, not_rules_vars>>

\* Midnight.
NextDay ==
    /\ today < MaxDay
    /\ today' = today + 1
    /\ UNCHANGED <<spending_limits, usage_tracking, merchant_rules, category_rules,
                   authorization_logs, session, granted, not_rules_vars>>

RulesInit ==
    /\ today = 0
    /\ spending_limits = <<>>
    /\ usage_tracking = <<>>
    /\ merchant_rules = <<>>
    /\ category_rules = <<>>
    /\ authorization_logs = <<>>
    /\ session = [h \in Handlers |-> IdleSession]
    /\ granted = [day |-> 0, sum |-> 0]

\* The requests and updates tried.
RuleRequests ==
    [amount : {300, 600}, merchant : {NoMerchant, SlotsGamblingUpper},
     category : {NoCategory, "Gambling"}]

LimitUpdates ==
    {[daily_limit |-> d, monthly_limit |-> m, per_transaction_limit |-> NoAmount,
      require_approval_above |-> a] :
        d \in {NoAmount, 200}, m \in {NoAmount, 200}, a \in {NoAmount, 0}}
    \ {[daily_limit |-> NoAmount, monthly_limit |-> NoAmount,
        per_transaction_limit |-> NoAmount, require_approval_above |-> NoAmount]}

\* One handler, requests one at a time, each served to its end before the
\* next call of the rules and limits endpoints.
RulesNext ==
    \/ \E req \in RuleRequests, rules \in RowOrders(ActiveRows(merchant_rules)) :
           Evaluate(1, req, rules)
    \/ RecordTransaction(1)
    \/ CloseSession(1)
    \/ \E a \in {"allow", "block"} :
           session[1].pc = "idle" /\ CreateMerchantRule(AnyGamblingPattern, a)
    \/ \E i \in 1..MaxRules : session[1].pc = "idle" /\ DeleteMerchantRule(i)
    \/ \E a \in {"allow", "block"} :
           session[1].pc = "idle" /\ CreateCategoryRule("gambling", a)
    \/ \E i \in 1..MaxRules : session[1].pc = "idle" /\ DeleteCategoryRule(i)
    \/ \E u \in LimitUpdates : session[1].pc = "idle" /\ UpdateLimits(u)
    \/ \E reset_type \in {"daily", "monthly"} :
           session[1].pc = "idle" /\ ResetUsage(reset_type)

ConcurrentRequests ==
    [amount : {400}, merchant : {NoMerchant}, category : {NoCategory}]

\* Two handlers serving requests of the principal at the same time.
ConcurrentNext ==
    \/ \E h \in Handlers, req \in ConcurrentRequests : Evaluate(h, req, <<>>)
    \/ \E h \in Handlers : RecordTransaction(h)
    \/ NextDay

\* Two handlers serving the first requests of the principal at the same
\* time; a handler whose request was denied may end without recording it.
FirstRequests ==
    [amount : {400, 600}, merchant : {NoMerchant}, category : {NoCategory}]

FirstRequestsNext ==
    \/ \E h \in Handlers, req \in FirstRequests : Evaluate(h, req, <<>>)
    \/ \E h \in Handlers, req \in FirstRequests : EvaluateWaits(h, req)
    \/ \E h \in Handlers : EvaluateResumes(h)
    \/ \E h \in Handlers : RecordTransaction(h)
    \/ \E h \in Handlers : CloseSession(h)
    \/ NextDay

\* One handler serving the requests of the principal one at a time, each
\* recorded before the next, while the limits are set and changed.
SequentialUpdates ==
    {[daily_limit |-> d, monthly_limit |-> m, per_transaction_limit |-> NoAmount,
      require_approval_above |-> NoAmount] :
        d \in {600, 900}, m \in {900, NoAmount}}

SequentialNext ==
    \/ Evaluate(1, [amount |-> 300, merchant |-> NoMerchant, category |-> NoCategory], <<>>)
    \/ RecordTransaction(1)
    \/ CloseSession(1)
    \/ \E u \in SequentialUpdates : session[1].pc = "idle" /\ UpdateLimits(u)
    \/ NextDay

(***************************************************************************)
(* Decision orchestrator (app/services/auth_service.py) with the consent   *)
(* service (app/services/consent_service.py).                              *)
(*                                                                         *)
(* The token service and the verification endpoint are not part of the     *)
(* sources at hand; VerifyToken, DelegationToken and Verify follow the     *)
(* specification and the tests of tests/test_flow.py.                      *)
(***************************************************************************)
CACHE_TTL_SECONDS == 300
auth_code_expiry_seconds == 300

\* Seconds between two readings of the clock.
ClockStep == 150

NoTime == 0 - 1

\* str(datetime) and dateutil's parse of it, read as UTC
StrDatetime(t) == <<"datetime", t>>
ParseDate(str) == str[2]

\* Consent(...) as create_consent builds it
ConsentRow(id, constraints, expires_at) ==
    [consent_id |-> id, user_id |-> "user_123", is_active |-> TRUE,
     revoked_at |-> NoTime, expires_at |-> expires_at, constraints |-> constraints]

\* The dict create_consent and _check_consent_cached put into the cache
ConsentData(row) ==
    [consent_id |-> row.consent_id, user_id |-> row.user_id,
     is_active |-> row.is_active,
     revoked_at |-> IF row.revoked_at # NoTime THEN StrDatetime(row.revoked_at)
                    ELSE StrDatetime(NoTime),
     expires_at |-> StrDatetime(row.expires_at),
     constraints |-> row.constraints]

\* The place of a key in the dict, 0 when the dict does not hold it
CacheIndex(cache, id) ==
    IF \E k \in DOMAIN cache : cache[k].consent_id = id
    THEN CHOOSE k \in DOMAIN cache : cache[k].consent_id = id
    ELSE 0

\* _consent_cache[consent_id] = (data, cached_at): a key the dict holds keeps its place
CachePut(cache, id, data, t) ==
    LET entry == [consent_id |-> id, data |-> data, cached_at |-> t]
    IN  IF CacheIndex(cache, id) # 0
        THEN [cache EXCEPT ![CacheIndex(cache, id)] = entry]
        ELSE Append(cache, entry)

\* del _consent_cache[consent_id]
CacheDelete(cache, id) == SelectSeq(cache, LAMBDA e : e.consent_id # id)

\* min(_consent_cache.keys(), key=cached_at): the first key of the least cached_at
Oldest(cache) ==
    LET k == CHOOSE k \in DOMAIN cache :
                 /\ \A j \in DOMAIN cache : cache[k].cached_at <= cache[j].cached_at
                 /\ \A j \in 1..(k - 1) : cache[j].cached_at > cache[k].cached_at
    IN  cache[k].consent_id

\* The last key of the greatest cached_at.
Newest(cache) ==
    LET k == CHOOSE k \in DOMAIN cache :
                 /\ \A j \in DOMAIN cache : cache[k].cached_at >= cache[j].cached_at
                 /\ \A j \in (k + 1)..Len(cache) : cache[j].cached_at <= cache[k].cached_at
    IN  cache[k].consent_id

\* _cache_consent with an eviction of the newest entry instead of the oldest.
CacheConsentEvictingNewest(cache, id, data, t) ==
    LET put == CachePut(cache, id, data, t)
    IN  IF Len(put) > CacheCapacity THEN CacheDelete(put, Newest(put)) ELSE put

\* AuthService._cache_consent
CacheConsent(cache, id, data, t) ==
    LET put == CachePut(cache, id, data, t)
    IN  IF Len(put) > CacheCapacity THEN CacheDelete(put, Oldest(put)) ELSE put

\* AuthService._get_cached_consent returns the data
CachedHit(cache, id, t) ==
    /\ CacheIndex(cache, id) # 0
    /\ t - cache[CacheIndex(cache, id)].cached_at < CACHE_TTL_SECONDS

\* The cache as AuthService._get_cached_consent leaves it
CacheAfterGet(cache, id, t) ==
    IF CacheIndex(cache, id) # 0 /\ ~CachedHit(cache, id, t)
    THEN CacheDelete(cache, id)
    ELSE cache

\* "Validate cached consent" of _check_consent_cached
CachedValid(data, t) ==
    /\ data.is_active
    /\ ParseDate(data.revoked_at) = NoTime
    /\ ParseDate(data.expires_at) > t

\* Consent.is_valid at time t
ConsentIsValid(row, t) ==
    /\ row.is_active
    /\ row.revoked_at = NoTime
    /\ row.expires_at > t

\* A lookup of the active consent that does not compare expires_at.
GetActiveConsentIgnoringExpiry(rows, id, t) ==
    /\ id \in DOMAIN rows
    /\ rows[id].is_active
    /\ rows[id].revoked_at = NoTime

\* ConsentService.get_active_consent finds the row
GetActiveConsent(rows, id, t) ==
    /\ id \in DOMAIN rows
    /\ rows[id].is_active
    /\ rows[id].revoked_at = NoTime
    /\ rows[id].expires_at > t

\* AuthService._check_consent_cached does not return None
CheckConsentCached(cache, rows, id, t) ==
    IF CachedHit(cache, id, t)
    THEN CachedValid(cache[CacheIndex(cache, id)].data, t)
    ELSE GetActiveConsent(rows, id, t)

\* _cache_consent is called: a miss that the database answers.
CacheMissFilled(cache, rows, id, t) ==
    ~CachedHit(cache, id, t) /\ GetActiveConsent(rows, id, t)

\* The cache as AuthService._check_consent_cached leaves it
CacheAfterCheck(cache, rows, id, t) ==
    IF CacheMissFilled(cache, rows, id, t)
    THEN CacheConsent(CacheAfterGet(cache, id, t), id, ConsentData(rows[id]), t)
    ELSE CacheAfterGet(cache, id, t)

\* The payload of the delegation token create_consent returns for a consent.
DelegationToken(row) ==
    [consent_id |-> row.consent_id, user_id |-> row.user_id,
     max_amount |-> row.constraints.max_amount,
     currency |-> row.constraints.currency,
     allowed_merchants |-> row.constraints.allowed_merchants,
     exp |-> row.expires_at]

\* token_service.verify_token accepts a request with no higher amount than
\* max_amount, the token's currency and a merchant the token allows.
VerifyTokenAmountStrict(token, transaction, t) ==
    IF t >= token.exp THEN "token_expired"
    ELSE IF transaction.amount >= token.max_amount THEN "amount_exceeded"
    ELSE IF transaction.currency # token.currency THEN "currency_mismatch"
    ELSE IF token.allowed_merchants.given
            /\ transaction.merchant_id \notin Range(token.allowed_merchants.list)
    THEN "merchant_not_allowed"
    ELSE "ok"

\* token_service.verify_token: "ok" for valid, else the reason
VerifyToken(token, transaction, t) ==
    IF t >= token.exp THEN "token_expired"
    ELSE IF transaction.amount > token.max_amount THEN "amount_exceeded"
    ELSE IF transaction.currency # token.currency THEN "currency_mismatch"
    ELSE IF token.allowed_merchants.given
            /\ transaction.merchant_id \notin Range(token.allowed_merchants.list)
    THEN "merchant_not_allowed"
    ELSE "ok"

\* A DENY that does not carry the reason it was given.
DenyWithoutReason(reason) ==
    [decision |-> "DENY", reason |-> "denied", authorization_code |-> 0,
     consent_id |-> 0, expires_at |-> NoTime]

Deny(reason) ==
    [decision |-> "DENY", reason |-> reason, authorization_code |-> 0,
     consent_id |-> 0, expires_at |-> NoTime]

Allow(code, consent_id, expires_at) ==
    [decision |-> "ALLOW", reason |-> "None", authorization_code |-> code,
     consent_id |-> consent_id, expires_at |-> expires_at]

\* An exception of authorize that reaches the caller.
AuthorizeRaises(exception) ==
    [decision |-> "EXCEPTION", reason |-> exception, authorization_code |-> 0,
     consent_id |-> 0, expires_at |-> NoTime]

\* authorize awaiting a database that does not answer: nothing is returned.
AuthorizeWaits ==
    [decision |-> "WAITING", reason |-> "None", authorization_code |-> 0,
     consent_id |-> 0, expires_at |-> NoTime]

NoResponse == Deny("none")

\* What the database does with the query of get_active_consent.
StoreOutcomes == {"answers", "fails", "hangs"}

\* What the database does with the flush of the Authorization row.
WriteOutcomes == {"written", "fails"}

\* generate_authorization_code: a random string, which may be a code handed
\* out before; codes not handed out yet are interchangeable.
GenerateAuthorizationCode(cache) ==
    (DOMAIN cache \cup {Len(cache) + 1}) \cap 1..MaxCodes

\* _auth_cache[authorization_code] = {...}
AuthCachePut(cache, code, record) ==
    [c \in DOMAIN cache \cup {code} |-> IF c = code THEN record ELSE cache[c]]

\* The place of the row of a code in the authorizations table, 0 without one
RowIndex(rows, code) ==
    IF \E k \in DOMAIN rows : rows[k].authorization_code = code
    THEN CHOOSE k \in DOMAIN rows : rows[k].authorization_code = code
    ELSE 0

\* db.add(authorization); db.flush() inside try/except: a failing flush and a
\* row that breaks the unique authorization_code leave the table as it was.
InsertAuthorization(rows, row, write) ==
    IF write = "written" /\ RowIndex(rows, row.authorization_code) = 0
    THEN Append(rows, row)
    ELSE rows

\* authorize answering DENY when the flush of the row failed.
ResponseAfterWriteDenying(write, code, consent_id, expires_at) ==
    IF write = "written" THEN Allow(code, consent_id, expires_at)
    ELSE Deny("storage_error")

\* The response of authorize after the try/except around the flush
ResponseAfterWrite(write, code, consent_id, expires_at) ==
    Allow(code, consent_id, expires_at)

NoCacheOp == [called |-> FALSE, before |-> <<>>, key |-> 0, after |-> <<>>]

\* ConsentService.create_consent
CreateConsent(max_amount, currency, allowed_merchants, expires_in_seconds) ==
    LET id == Len(consents) + 1
        constraints == [max_amount |-> max_amount, currency |-> currency,
                        allowed_merchants |-> allowed_merchants]
        row == ConsentRow(id, constraints, now + expires_in_seconds)
    IN  /\ Len(consents) < MaxConsents
        /\ consents' = Append(consents, row)
        /\ consent_cache' = CachePut(consent_cache, id, ConsentData(row), now)
        /\ UNCHANGED <<now, cache_op, auth_cache, authorizations, response,
                       verify_log, not_auth_vars>>

\* ConsentService.revoke_consent returning True
RevokeConsent(id) ==
    /\ id \in DOMAIN consents
    /\ consents' = [consents EXCEPT ![id].revoked_at = now, ![id].is_active = FALSE]
    /\ UNCHANGED <<now, consent_cache, cache_op, auth_cache, authorizations,
                   response, verify_log, not_auth_vars>>

\* AuthService.authorize with the delegation token of consent id; store is
\* what the consent lookup meets on a cache miss, write what the flush of the
\* row meets, code what generate_authorization_code returns.
Authorize(id, transaction, store, write, code) ==
    LET reason == VerifyToken(DelegationToken(consents[id]), transaction, now)
        consent_ok == CheckConsentCached(consent_cache, consents, id, now)
        expires_at == now + auth_code_expiry_seconds
    IN  /\ id \in DOMAIN consents
        /\ IF reason # "ok"
           THEN /\ response' = Deny(reason)
                /\ UNCHANGED <<consent_cache, cache_op, auth_cache, authorizations>>
           ELSE IF ~CachedHit(consent_cache, id, now) /\ store # "answers"
           THEN /\ consent_cache' = CacheAfterGet(consent_cache, id, now)
                /\ response' = IF store = "fails"
                               THEN AuthorizeRaises("consent_store_error")
                               ELSE AuthorizeWaits
                /\ UNCHANGED <<cache_op, auth_cache, authorizations>>
           ELSE /\ consent_cache' = CacheAfterCheck(consent_cache, consents, id, now)
                /\ cache_op' =
                       IF CacheMissFilled(consent_cache, consents, id, now)
                       THEN [called |-> TRUE,
                             before |-> CacheAfterGet(consent_cache, id, now),
                             key |-> id,
                             after |-> CacheAfterCheck(consent_cache, consents, id, now)]
                       ELSE cache_op
                /\ IF ~consent_ok
                   THEN /\ response' = Deny("consent_invalid")
                        /\ UNCHANGED <<auth_cache, authorizations>>
                   ELSE /\ code \in GenerateAuthorizationCode(auth_cache)
                        /\ response' = ResponseAfterWrite(write, code, id, expires_at)
                        /\ auth_cache' = AuthCachePut(auth_cache, code,
                               [consent_id |-> id, decision |-> "ALLOW",
                                amount |-> transaction.amount,
                                currency |-> transaction.currency,
                                merchant_id |-> transaction.merchant_id,
                                expires_at |-> expires_at, created_at |-> now])
                        /\ authorizations' = InsertAuthorization(authorizations,
                               [authorization_code |-> code, consent_id |-> id,
                                decision |-> "ALLOW",
                                amount |-> transaction.amount,
                                currency |-> transaction.currency,
                                merchant_id |-> transaction.merchant_id,
                                expires_at |-> expires_at,
                                is_used |-> FALSE, used_at |-> NoTime], write)
        /\ UNCHANGED <<now, consents, verify_log, not_auth_vars>>

\* Authorization.is_valid without the is_used flag.
IsValidIgnoringUse(row, t) ==
    row.decision = "ALLOW" /\ row.expires_at > t

\* Authorization.is_valid
IsValid(row, t) ==
    row.decision = "ALLOW" /\ ~row.is_used /\ row.expires_at > t

\* The verification call for an authorization code: look the code up, check
\* it is not expired and not used, and mark it used.
Verify(code) ==
    LET k == RowIndex(authorizations, code)
        row == authorizations[k]
        error == IF IsValid(row, now) THEN "None"
                 ELSE IF row.expires_at <= now THEN "Expired"
                 ELSE "AlreadyUsed"
    IN  /\ k # 0
        /\ Len(verify_log) < MaxVerifies
        /\ verify_log' = Append(verify_log,
               [code |-> code, at |-> now, valid |-> IsValid(row, now), error |-> error])
        /\ authorizations' =
               IF IsValid(row, now)
               THEN [authorizations EXCEPT ![k].is_used = TRUE, ![k].used_at = now]
               ELSE authorizations
        /\ UNCHANGED <<now, consents, consent_cache, cache_op, auth_cache, response,
                       not_auth_vars>>

\* Time passes.
AuthTick ==
    /\ now + ClockStep <= MaxTicks * ClockStep
    /\ now' = now + ClockStep
    /\ UNCHANGED <<consents, consent_cache, cache_op, auth_cache, authorizations,
                   response, verify_log, not_auth_vars>>

AuthInit ==
    /\ now = 0
    /\ consents = <<>>
    /\ consent_cache = <<>>
    /\ cache_op = NoCacheOp
    /\ auth_cache = <<>>
    /\ authorizations = <<>>
    /\ response = NoResponse
    /\ verify_log = <<>>

Transaction(amount, currency, merchant_id) ==
    [amount |-> amount, currency |-> currency, merchant_id |-> merchant_id]

\* The transactions tried.
Transactions ==
    {Transaction(a, "USD", AmazonCom) : a \in {347, 500, 600}}
    \cup {Transaction(347, "EUR", AmazonCom), Transaction(10, "USD", SlotsGambling)}

\* Consents, their revocation and authorizations, with the merchant rules of
\* the principal.
AuthNext ==
    \/ \E s \in {NoList, SomeList(<<AmazonCom>>)} :
           consents = <<>> /\ CreateConsent(500, "USD", s, 400)
    \/ \E id \in DOMAIN consents : consents[id].revoked_at = NoTime /\ RevokeConsent(id)
    \/ \E id \in 1..MaxConsents, t \in Transactions :
           Authorize(id, t, "answers", "written", Len(auth_cache) + 1)
    \/ merchant_rules = <<>> /\ CreateMerchantRule(AnyGamblingPattern, "block")
    \/ AuthTick

\* Authorization codes and their verification over time; the code generator
\* returns an unused code or repeats its last one.
VerifyNext ==
    \/ consents = <<>> /\ CreateConsent(500, "USD", NoList, 1000)
    \/ \E t \in {Transaction(347, "USD", AmazonCom), Transaction(600, "USD", AmazonCom)} :
           \E code \in {Len(auth_cache), Len(auth_cache) + 1} :
               Authorize(1, t, "answers", "written", code)
    \/ \E code \in 1..MaxCodes : Verify(code)
    \/ AuthTick

\* The consent cache under consents created and used over time.
CacheNext ==
    \/ CreateConsent(500, "USD", NoList, 1000)
    \/ \E id \in 1..MaxConsents :
           Authorize(id, Transaction(347, "USD", AmazonCom), "answers", "written",
                     Len(auth_cache) + 1)
    \/ AuthTick

(***************************************************************************)
(* The write-behind queue of auth_service.py and its flush loop.           *)
(***************************************************************************)
\* The record of an ALLOW decision as the flush loop reads it
AuthData(code, id, transaction, expires_at) ==
    [authorization_code |-> code, consent_id |-> id, decision |-> "ALLOW",
     amount |-> transaction.amount, currency |-> transaction.currency,
     merchant_id |-> transaction.merchant_id, expires_at |-> expires_at]

\* An append that drops the arriving record when the deque is full.
DequeAppendDroppingNewest(queue, record) ==
    IF Len(queue) >= QueueCapacity THEN queue ELSE Append(queue, record)

\* deque(maxlen=...).append: a full deque drops its oldest record
DequeAppend(queue, record) ==
    IF Len(queue) >= QueueCapacity
    THEN Append(Tail(queue), record)
    ELSE Append(queue, record)

\* The producer of the queue: the record of an ALLOW decision is appended.
Enqueue ==
    LET code == queued_total + 1
        record == AuthData(code, 1, [amount |-> 347, currency |-> "USD",
                                     merchant_id |-> AmazonCom],
                           now + auth_code_expiry_seconds)
    IN  /\ app_running
        /\ queued_total < MaxQueued
        /\ auth_queue' = DequeAppend(auth_queue, record)
        /\ queued_total' = code
        /\ UNCHANGED <<authorizations, background_worker_started, flush_task,
                       app_running, flush_log, not_queue_vars>>

\* start_background_worker; loop_running: asyncio.get_running_loop() finds a loop
StartBackgroundWorker(loop_running) ==
    /\ app_running
    /\ background_worker_started' = TRUE
    /\ flush_task' = IF ~background_worker_started /\ loop_running
                     THEN "sleeping"
                     ELSE flush_task
    /\ UNCHANGED <<auth_queue, queued_total, authorizations, app_running, flush_log,
                   not_queue_vars>>

\* A batch taken from the tail of the queue.
FlushBatchFromTail(queue) ==
    SubSeq(queue,
           (IF Len(queue) < FlushBatchSize THEN 0 ELSE Len(queue) - FlushBatchSize) + 1,
           Len(queue))

\* The batch of one tick: popleft until the queue is empty or the batch is full
FlushBatch(queue) ==
    SubSeq(queue, 1, IF Len(queue) < FlushBatchSize THEN Len(queue) ELSE FlushBatchSize)

\* A tick that puts the batch of a failed write back on the queue.
QueueAfterFlushRequeuing(queue, written) ==
    IF written THEN SubSeq(queue, Len(FlushBatch(queue)) + 1, Len(queue)) ELSE queue

\* A tick that clears the queue once it has taken its batch.
QueueAfterFlushClearing(queue, written) ==
    SubSeq(queue, 1, 0)

\* The queue after a tick: the batch is gone, whether or not it was written
QueueAfterFlush(queue, written) ==
    SubSeq(queue, Len(FlushBatch(queue)) + 1, Len(queue))

\* The row the flush loop adds for a record
FlushedRow(auth_data) ==
    [authorization_code |-> auth_data.authorization_code,
     consent_id |-> auth_data.consent_id, decision |-> auth_data.decision,
     amount |-> auth_data.amount, currency |-> auth_data.currency,
     merchant_id |-> auth_data.merchant_id, expires_at |-> auth_data.expires_at,
     is_used |-> FALSE, used_at |-> NoTime]

\* session.commit() of a batch succeeds: the database takes the write and no
\* row breaks the unique authorization_code
BatchCommits(rows, batch, write) ==
    /\ write = "written"
    /\ \A i \in DOMAIN batch :
           /\ RowIndex(rows, batch[i].authorization_code) = 0
           /\ \A j \in 1..(i - 1) :
                  batch[j].authorization_code # batch[i].authorization_code

\* One tick of flush_auth_queue after its sleep
FlushAuthQueue(write) ==
    LET batch == FlushBatch(auth_queue)
        written == BatchCommits(authorizations, batch, write)
    IN  /\ flush_task = "sleeping"
        /\ IF auth_queue = <<>>
           THEN UNCHANGED <<auth_queue, authorizations, flush_log>>
           ELSE /\ Len(flush_log) < MaxFlushes
                /\ auth_queue' = QueueAfterFlush(auth_queue, written)
                /\ authorizations' =
                       IF written
                       THEN authorizations \o [i \in DOMAIN batch |-> FlushedRow(batch[i])]
                       ELSE authorizations
                /\ flush_log' = Append(flush_log,
                       [before |-> auth_queue, batch |-> batch, written |-> written])
        /\ UNCHANGED <<queued_total, background_worker_started, flush_task,
                       app_running, not_queue_vars>>

\* The shutdown half of lifespan: nothing is done after the yield, and the
\* event loop that ends with the application cancels the task at its await.
Shutdown ==
    /\ app_running
    /\ app_running' = FALSE
    /\ flush_task' = IF flush_task = "sleeping" THEN "cancelled" ELSE flush_task
    /\ UNCHANGED <<auth_queue, queued_total, authorizations,
                   background_worker_started, flush_log, not_queue_vars>>

QueueInit ==
    /\ auth_queue = <<>>
    /\ queued_total = 0
    /\ background_worker_started = FALSE
    /\ flush_task = "none"
    /\ app_running = TRUE
    /\ flush_log = <<>>

\* Records appended to the queue and the ticks of the flush loop.
QueueNext ==
    \/ Enqueue
    \/ \E loop_running \in BOOLEAN : StartBackgroundWorker(loop_running)
    \/ \E write \in WriteOutcomes : FlushAuthQueue(write)
    \/ Shutdown

\* The flush loop over time with a database that takes every write, and as
\* many arrivals as the ticks the model follows can take.
DrainNext ==
    \/ queued_total < MaxFlushes /\ Enqueue
    \/ \E loop_running \in BOOLEAN : StartBackgroundWorker(loop_running)
    \/ FlushAuthQueue("written")
    \/ AuthTick

\* Authorizations of one consent over time with a database that may fail or
\* not answer and a code generator that returns an unused code or repeats
\* its last one.
FaultNext ==
    \/ consents = <<>> /\ CreateConsent(500, "USD", NoList, 1000)
    \/ \E store \in StoreOutcomes, write \in WriteOutcomes,
          code \in {Len(auth_cache), Len(auth_cache) + 1} :
           Authorize(1, Transaction(347, "USD", AmazonCom), store, write, code)
    \/ AuthTick

NoCheck == [called |-> FALSE, consent_id |-> 0, store |-> "answers",
            result |-> "None", from_cache |-> FALSE]

\* AuthService._check_consent_cached(db, id) called by itself; store is what
\* get_active_consent meets when the function reaches it. result is "raises"
\* or "waits" when the database decides the call, "snapshot" for a returned
\* dict and "None" otherwise; from_cache says the dict came out of the cache.
CheckConsent(id, store) ==
    /\ IF ~CachedHit(consent_cache, id, now) /\ store # "answers"
       THEN /\ consent_cache' = CacheAfterGet(consent_cache, id, now)
            /\ consent_check' = [called |-> TRUE, consent_id |-> id, store |-> store,
                                 result |-> IF store = "fails" THEN "raises" ELSE "waits",
                                 from_cache |-> FALSE]
            /\ UNCHANGED cache_op
       ELSE /\ consent_cache' = CacheAfterCheck(consent_cache, consents, id, now)
            /\ cache_op' =
                   IF CacheMissFilled(consent_cache, consents, id, now)
                   THEN [called |-> TRUE,
                         before |-> CacheAfterGet(consent_cache, id, now),
                         key |-> id,
                         after |-> CacheAfterCheck(consent_cache, consents, id, now)]
                   ELSE cache_op
            /\ consent_check' =
                   [called |-> TRUE, consent_id |-> id, store |-> store,
                    result |-> IF CheckConsentCached(consent_cache, consents, id, now)
                               THEN "snapshot" ELSE "None",
                    from_cache |-> /\ CachedHit(consent_cache, id, now)
                                   /\ CheckConsentCached(consent_cache, consents, id, now)]
    /\ UNCHANGED <<now, consents, auth_cache, authorizations, response, verify_log,
                   ucan_vars, biscuit_vars, rules_vars, queue_vars>>

CheckInit == consent_check = NoCheck

\* _check_consent_cached over consents created, revoked and ageing, with a
\* consent store that answers, fails or hangs.
CheckNext ==
    \/ \E expires_in_seconds \in {400, 1000} :
           consents = <<>> /\ CreateConsent(500, "USD", NoList, expires_in_seconds)
    \/ \E id \in DOMAIN consents : consents[id].revoked_at = NoTime /\ RevokeConsent(id)
    \/ \E id \in 1..2, store \in StoreOutcomes : CheckConsent(id, store)
    \/ AuthTick

Init ==
    /\ UcanInit
    /\ BiscuitInit
    /\ RulesInit
    /\ AuthInit
    /\ QueueInit
    /\ CheckInit

\* Tokens of both kinds minted and derived from one another.
DeriveNext ==
    \/ \E m \in BiscuitAmounts : BiscuitCreateToken(<<"purchase">>, m, 2)
    \/ \E m \in {1, NoAmount}, ms \in {{}, {"delta"}} :
           BiscuitAttenuateToken(m, ms, {})
    \/ CreateRootUcan(<<Cap(ConsentResource, "purchase", MaxUcanAmount)>>, 2)
    \/ \E k \in 1..MaxChain, caps \in {NoList, SomeList(<<Cap(ConsentResource, "purchase", 1)>>)} :
           Delegate(k, caps, 1)
    \/ UcanTick

SpecUcan == Init /\ [][UcanNext]_vars

SpecDerive == Init /\ [][DeriveNext]_vars

SpecAgent == Init /\ [][AgentNext]_vars

\* The task of flush_auth_queue wakes from asyncio.sleep(1) again and again
\* while the event loop runs: a tick that can change the state is taken.
SpecDrain == Init /\ [][DrainNext]_vars /\ WF_vars(FlushAuthQueue("written"))

SpecSequential == Init /\ [][SequentialNext]_vars

SpecFirstRequests == Init /\ [][FirstRequestsNext]_vars

SpecCheck == Init /\ [][CheckNext]_vars

SpecUcanValidate == Init /\ [][UcanValidateNext]_vars

SpecBiscuit == Init /\ [][BiscuitNext]_vars

SpecBiscuitVerify == Init /\ [][BiscuitVerifyNext]_vars

SpecRules == Init /\ [][RulesNext]_vars

SpecConcurrent == Init /\ [][ConcurrentNext]_vars

SpecAuth == Init /\ [][AuthNext]_vars

SpecVerify == Init /\ [][VerifyNext]_vars

SpecCache == Init /\ [][CacheNext]_vars

SpecFault == Init /\ [][FaultNext]_vars

SpecQueue == Init /\ [][QueueNext]_vars

(***************************************************************************)
(* C1.  Delegation never widens.                                           *)
(***************************************************************************)
\* max_amount caveat a is not greater than b; a dict without max_amount is unlimited.
AmountNoWider(a, b) ==
    \/ b = NoAmount
    \/ a # NoAmount /\ b # NoAmount /\ a <= b

NoWiderThan(c, p) ==
    /\ ResourceMatches(c.resource, p.resource)
    /\ (p.action = "*" \/ c.action = p.action)
    /\ AmountNoWider(c.caveats.max_amount, p.caveats.max_amount)

\* C1: every capability of every derived token in a proof chain is no wider
\* than some capability of its parent: resource and action covered and the
\* max_amount caveat not greater than the parent's.
C1_DelegationNeverWidens ==
    \A i \in 2..Len(ucan_chain) :
        \A c \in Range(ucan_chain[i].att) :
            \E p \in Range(ucan_chain[i - 1].att) : NoWiderThan(c, p)

(***************************************************************************)
(* C2.  Concurrent requests and the daily limit.                           *)
(***************************************************************************)
\* The daily_limit of the principal: of the active SpendingLimit row, or the default.
DailyLimit ==
    IF ActiveRows(spending_limits) = <<>> THEN DEFAULT_DAILY_LIMIT
    ELSE ActiveRows(spending_limits)[1].daily_limit

\* C2: under any interleaving of concurrent requests of one principal, each
\* running evaluate and, on ALLOW, record_transaction, the sum of the amounts
\* that received ALLOW within one day never exceeds the daily_limit.
C2_AllowedSumWithinDailyLimit ==
    granted.sum <= DailyLimit

C4_RevokedConsentIsDenied ==
    [][\A id \in DOMAIN consents : \A t \in Transactions :
           /\ consents[id].revoked_at # NoTime
           /\ VerifyToken(DelegationToken(consents[id]), t, now) = "ok"
           /\ \E write \in WriteOutcomes, code \in 1..MaxCodes :
                  Authorize(id, t, "answers", write, code)
           => response' = Deny("consent_invalid")]_vars

(***************************************************************************)
(* C5.  The rules engine in authorize.                                     *)
(***************************************************************************)
\* RulesEngine.evaluate denies the transaction for the principal, in
\* whichever order the merchant rules are returned.
RulesEngineDenies(t) ==
    LET active == ActiveRows(spending_limits)
        limits == IF active = <<>> THEN DefaultLimits ELSE active[1]
        loaded == IF usage_tracking = <<>> THEN DefaultUsage(today) ELSE usage_tracking[1]
        request == [amount |-> t.amount, merchant |-> t.merchant_id, category |-> NoCategory]
    IN  \A rules \in RowOrders(ActiveRows(merchant_rules)) :
            ~EvaluateStages(limits, MaybeResetCounters(loaded, today), request,
                            rules, category_rules).allowed

\* C5: authorize under an active consent never returns ALLOW for a transaction
\* that the rules engine denies for the principal, as with the merchant rule block "*.gambling.com"
\* and amount 10 at "slots.gambling.com".
C5_AuthorizeObeysRulesEngine ==
    [][\A id \in DOMAIN consents : \A t \in Transactions :
           /\ GetActiveConsent(consents, id, now)
           /\ RulesEngineDenies(t)
           /\ \E write \in WriteOutcomes, code \in 1..MaxCodes :
                  Authorize(id, t, "answers", write, code)
           => response'.decision = "DENY"]_vars

(***************************************************************************)
(* C6.  Token constraints.                                                 *)
(***************************************************************************)
\* The constraints of a consent that a transaction breaks, by reason.
BrokenConstraints(constraints, t) ==
    (IF t.amount <= constraints.max_amount THEN {} ELSE {"amount_exceeded"})
    \cup (IF t.currency = constraints.currency THEN {} ELSE {"currency_mismatch"})
    \cup (IF constraints.allowed_merchants.given
             /\ t.merchant_id \notin Range(constraints.allowed_merchants.list)
          THEN {"merchant_not_allowed"} ELSE {})

FailingStages(s) ==
    {k \in 1..5 :
        \/ k = 1 /\ s.request.amount > s.limits.per_transaction_limit
        \/ k = 2 /\ \E i \in DOMAIN s.merchant_rows :
                       /\ FnMatch(Lower(s.request.merchant),
                                  Lower(s.merchant_rows[i].merchant_pattern))
                       /\ s.merchant_rows[i].action = "block"
                       /\ \A j \in 1..(i - 1) :
                              ~FnMatch(Lower(s.request.merchant),
                                       Lower(s.merchant_rows[j].merchant_pattern))
        \/ k = 3 /\ \E i \in DOMAIN s.category_rows : s.category_rows[i].action = "block"
        \/ k = 4 /\ s.usage.daily_spent + s.request.amount > s.limits.daily_limit
        \/ k = 5 /\ s.usage.monthly_spent + s.request.amount > s.limits.monthly_limit}

StageReason(k) ==
    CASE k = 1 -> "per_transaction_limit"
      [] k = 2 -> "merchant_blocked"
      [] k = 3 -> "category_blocked"
      [] k = 4 -> "daily_limit"
      [] k = 5 -> "monthly_limit"

EarliestStage(stages) == CHOOSE k \in stages : \A j \in stages : k <= j

\* C7: whenever the request of an evaluate fails several stages, evaluate
\* returns DENY with the reason of the earliest of them in the order
\* per-transaction limit, merchant rules, category rules, daily limit,
\* monthly limit.
C7_ReasonOfEarliestFailingStage ==
    \A h \in Handlers :
        session[h].pc = "evaluated" /\ Cardinality(FailingStages(session[h])) >= 2 =>
            /\ ~session[h].decision.raised
            /\ ~session[h].decision.allowed
            /\ session[h].decision.reason = StageReason(EarliestStage(FailingStages(session[h])))

\* The same when the category of the request has at most one active rule
\* and the principal one active limits row: the order of the stages itself.
StageOrderWithoutDuplicateRows ==
    \A h \in Handlers :
        /\ session[h].pc = "evaluated"
        /\ FailingStages(session[h]) # {}
        /\ Len(session[h].category_rows) <= 1
        /\ session[h].decision.reason # "MultipleResultsFound"
        => /\ ~session[h].decision.allowed
           /\ session[h].decision.reason = StageReason(EarliestStage(FailingStages(session[h])))

(***************************************************************************)
(* C8.  Biscuit round trip.                                                *)
(***************************************************************************)
\* C8: the token that Biscuit.deserialize returns for t.serialize() is
\* structurally equal to t: same token_id, created_at and root_key_id, same authority
\* block, same attenuation blocks with every fact, rule and check.
C8_RoundTripIsIdentity ==
    biscuit_parsed.token_id # 0 /\ biscuit_parsed.token_id = biscuit.token_id
        => biscuit_parsed = biscuit

(***************************************************************************)
(* C9.  Size of the consent cache.                                         *)
(***************************************************************************)
\* C9: in every reachable state the consent cache holds no more entries
\* than its capacity, whether _cache_consent or create_consent put them in.
C9_CacheWithinCapacity ==
    Len(consent_cache) <= CacheCapacity

(***************************************************************************)
(* C10.  Eviction.                                                         *)
(***************************************************************************)
CachedIds(cache) == {cache[k].consent_id : k \in DOMAIN cache}

DailyCounters(u) == <<u.daily_spent, u.daily_transaction_count, u.last_daily_reset>>

MonthlyCounters(u) ==
    <<u.monthly_spent, u.monthly_transaction_count, u.last_monthly_reset>>

\* C11: evaluate on a usage record stamped before today zeroes daily_spent
\* and daily_transaction_count and stamps last_daily_reset with today, and
\* leaves them alone on a record stamped today; it zeroes the monthly
\* counters exactly when the stored month or year is not the current one,
\* and leaves them unchanged otherwise.
C11_CounterRollover ==
    [][\A h \in Handlers : \A req \in ConcurrentRequests :
           usage_tracking # <<>> /\ Evaluate(h, req, <<>>) =>
               LET old == usage_tracking[1]
                   new == session'[h].usage
               IN  /\ IF old.last_daily_reset < today
                      THEN DailyCounters(new) = <<0, 0, today>>
                      ELSE DailyCounters(new) = DailyCounters(old)
                   /\ IF MonthOf(old.last_monthly_reset) # MonthOf(today)
                      THEN MonthlyCounters(new) = <<0, 0, today>>
                      ELSE MonthlyCounters(new) = MonthlyCounters(old)]_vars

\* evaluate has zeroed the daily counters of a record of an earlier day of
\* the current month and kept its monthly counters.
C11_Witness ==
    \E h \in Handlers :
        /\ session[h].pc = "evaluated"
        /\ usage_tracking # <<>>
        /\ usage_tracking[1].daily_spent > 0
        /\ usage_tracking[1].last_daily_reset < today
        /\ MonthOf(usage_tracking[1].last_monthly_reset) = MonthOf(today)
        /\ DailyCounters(session[h].usage) = <<0, 0, today>>
        /\ session[h].usage.monthly_spent = usage_tracking[1].monthly_spent
        /\ session[h].usage.monthly_spent > 0

(***************************************************************************)
(* C12.  Step-up.                                                          *)
(***************************************************************************)
\* RulesEngine.evaluate allows the transaction for the principal and sets
\* requires_human_approval, in whichever order the merchant rules are returned.
RulesEngineRequiresApproval(t) ==
    LET active == ActiveRows(spending_limits)
        limits == IF active = <<>> THEN DefaultLimits ELSE active[1]
        loaded == IF usage_tracking = <<>> THEN DefaultUsage(today) ELSE usage_tracking[1]
        request == [amount |-> t.amount, merchant |-> t.merchant_id, category |-> NoCategory]
    IN  \A rules \in RowOrders(ActiveRows(merchant_rules)) :
            LET decision == EvaluateStages(limits, MaybeResetCounters(loaded, today),
                                           request, rules, category_rules)
            IN  decision.allowed /\ decision.requires_human_approval

\* C12: when the rules evaluation of a request sets requires_human_approval,
\* authorize under an active consent and a valid token returns STEP_UP and mints no code: the
\* authorization cache and the authorizations table stay as they were.
C12_StepUpMintsNoCode ==
    [][\A id \in DOMAIN consents : \A t \in Transactions :
           /\ GetActiveConsent(consents, id, now)
           /\ VerifyToken(DelegationToken(consents[id]), t, now) = "ok"
           /\ RulesEngineRequiresApproval(t)
           /\ \E write \in WriteOutcomes, code \in 1..MaxCodes :
                  Authorize(id, t, "answers", write, code)
           => /\ response'.decision = "STEP_UP"
              /\ auth_cache' = auth_cache
              /\ authorizations' = authorizations]_vars

(***************************************************************************)
(* C13.  Every authorize ends in a decision.                               *)
(***************************************************************************)
\* C13: no call of authorize raises an exception to the caller; a failure of
\* the consent lookup, as a database error on a cache miss, yields DENY.
C13_AuthorizeNeverRaises ==
    response.decision # "EXCEPTION"

(***************************************************************************)
(* C14.  Authorization codes are unique.                                   *)
(***************************************************************************)
\* C14: authorize never stores a record under a code that is already a key
\* of the authorization cache: every ALLOW carries a code that was not a key
\* before, and the records of the other codes stay as they were.
C14_CodeIsNotALiveKey ==
    [][\A store \in StoreOutcomes, write \in WriteOutcomes, code \in 1..MaxCodes :
           /\ Authorize(1, Transaction(347, "USD", AmazonCom), store, write, code)
           /\ response'.decision = "ALLOW"
           => /\ response'.authorization_code \notin DOMAIN auth_cache
              /\ \A c \in DOMAIN auth_cache : auth_cache'[c] = auth_cache[c]]_vars

(***************************************************************************)
(* C18.  A failing durable write does not change the decision.             *)
(***************************************************************************)
\* authorize gets as far as the write of the row: the token is valid, the
\* consent lookup is answered from the cache or by the database, and the
\* consent is valid.
ReachesWrite(id, t, store) ==
    /\ id \in DOMAIN consents
    /\ VerifyToken(DelegationToken(consents[id]), t, now) = "ok"
    /\ CachedHit(consent_cache, id, now) \/ store = "answers"
    /\ CheckConsentCached(consent_cache, consents, id, now)

\* C18: when the durable write of the authorization record fails, authorize
\* still returns ALLOW with the code, and on return the code is a key of the
\* authorization cache whose record carries the request's consent id, amount,
\* currency and merchant id and an expires_at later than its created_at.
C18_WriteFailureKeepsDecision ==
    [][\A store \in StoreOutcomes, code \in 1..MaxCodes :
           LET t == Transaction(347, "USD", AmazonCom)
           IN  ReachesWrite(1, t, store) /\ Authorize(1, t, store, "fails", code) =>
                   /\ response'.decision = "ALLOW"
                   /\ response'.authorization_code = code
                   /\ code \in DOMAIN auth_cache'
                   /\ auth_cache'[code].consent_id = 1
                   /\ auth_cache'[code].amount = t.amount
                   /\ auth_cache'[code].currency = t.currency
                   /\ auth_cache'[code].merchant_id = t.merchant_id
                   /\ auth_cache'[code].expires_at > auth_cache'[code].created_at
                   /\ response'.expires_at = auth_cache'[code].expires_at]_vars

\* An ALLOW whose code keys a cache record and has no row in the table.
C18_Witness ==
    /\ response.decision = "ALLOW"
    /\ response.authorization_code \in DOMAIN auth_cache
    /\ RowIndex(authorizations, response.authorization_code) = 0
    /\ auth_cache[response.authorization_code].amount = 347

(***************************************************************************)
(* C19.  The consent lookup is bounded by a timeout.                       *)
(***************************************************************************)
\* C19: a consent-cache miss under a valid token whose lookup in the
\* database does not answer makes authorize return DENY with reason
\* consent_unavailable.
C19_UnansweredLookupIsDenied ==
    [][\A write \in WriteOutcomes, code \in 1..MaxCodes :
           LET t == Transaction(347, "USD", AmazonCom)
           IN  /\ 1 \in DOMAIN consents
               /\ VerifyToken(DelegationToken(consents[1]), t, now) = "ok"
               /\ ~CachedHit(consent_cache, 1, now)
               /\ Authorize(1, t, "hangs", write, code)
               => response' = Deny("consent_unavailable")]_vars

(***************************************************************************)
(* C17.  authorize hands the record to the write-behind queue.             *)
(***************************************************************************)
\* C17: for every ALLOW decision authorize inserts the record into the
\* authorization cache, appends it to the write-behind queue and returns
\* without performing the durable write: the authorizations table is written
\* by the flush loop only.
C17_AllowIsEnqueuedNotWritten ==
    [][\A id \in DOMAIN consents : \A t \in Transactions :
           /\ \E write \in WriteOutcomes, code \in 1..MaxCodes :
                  Authorize(id, t, "answers", write, code)
           /\ response'.decision = "ALLOW"
           => /\ response'.authorization_code \in DOMAIN auth_cache'
              /\ auth_queue' = DequeAppend(auth_queue,
                     AuthData(response'.authorization_code, id, t, response'.expires_at))
              /\ authorizations' = authorizations]_vars

(***************************************************************************)
(* C20.  A failed batch of the flush loop.                                 *)
(***************************************************************************)
\* The records of a sequence.
Records(queue) == {queue[i] : i \in DOMAIN queue}

\* C20: the records of a batch whose write failed are not put back: they are
\* neither on the queue nor in the authorizations table afterwards; the loop
\* is still running; and the tick after it takes its batch from the front of
\* the queue, the records left behind by the failed tick first.
C20_FailedBatchIsDropped ==
    \A i \in DOMAIN flush_log :
        ~flush_log[i].written =>
            /\ flush_log[i].batch # <<>>
            /\ \A r \in Records(flush_log[i].batch) :
                   /\ r \notin Records(auth_queue)
                   /\ RowIndex(authorizations, r.authorization_code) = 0
            /\ app_running => flush_task = "sleeping"
            /\ i < Len(flush_log) =>
                   LET left == SubSeq(flush_log[i].before, Len(flush_log[i].batch) + 1,
                                      Len(flush_log[i].before))
                       next == flush_log[i + 1]
                   IN  /\ next.batch = FlushBatch(next.before)
                       /\ \A r \in Records(flush_log[i].batch) : r \notin Records(next.before)
                       /\ \A k \in DOMAIN left :
                              left[k] \in Records(next.before) /\ k <= FlushBatchSize
                                  => left[k] \in Records(next.batch)

\* A tick whose write failed with records left on the queue, and a later tick
\* that wrote the records left behind.
C20_Witness ==
    \E i \in DOMAIN flush_log :
        /\ ~flush_log[i].written
        /\ Len(flush_log[i].before) > Len(flush_log[i].batch)
        /\ i < Len(flush_log)
        /\ flush_log[i + 1].written
        /\ flush_log[i].before[Len(flush_log[i].batch) + 1] \in Records(flush_log[i + 1].batch)
        /\ RowIndex(authorizations,
                    flush_log[i].before[Len(flush_log[i].batch) + 1].authorization_code) # 0

(***************************************************************************)
(* C15.  UCAN validation and tampering.                                    *)
(***************************************************************************)
\* C15: validate accepts only tokens that were issued by create_root_ucan
\* or delegate and not altered since: a token whose capabilities, caveats,
\* expiry or proofs were altered or made up is rejected.
C15_TamperedTokenIsRejected ==
    ucan_validation.tamper # "none" => ucan_validation.result = "UCANValidationError"

(***************************************************************************)
(* C16.  Biscuit verification and the checks of the token.                 *)
(***************************************************************************)
\* The checks of the authority block and of the attenuation blocks.
AllChecks(t) ==
    Range(t.authority.checks)
    \cup UNION {Range(t.blocks[b].checks) : b \in DOMAIN t.blocks}

\* The transaction of the last verify_token violates a check of the token:
\* amount above a max_amount, merchant outside an allowed_merchants list,
\* category given and outside allowed_categories, or time not before expires_at.
ViolatesSomeCheck(v, t) ==
    \E check \in AllChecks(t) :
        \/ check[1] = AmountCheck(0)[1] /\ v.amount > check[2]
        \/ check[1] = TimeCheck(0)[1] /\ v.time >= check[2]
        \/ check[1] = MerchantsCheck({})[1] /\ v.merchant \notin check[2]
        \/ check[1] = CategoriesCheck({})[1] /\ v.category # "None"
                                              /\ v.category \notin check[2]

\* C16: verify_token rejects a transaction that violates a check of the
\* authority block or of an attenuation block of the token.
C16_ViolatingTransactionIsRejected ==
    biscuit_verified.called /\ ViolatesSomeCheck(biscuit_verified, biscuit)
        => biscuit_verified.result = "BiscuitAuthorizationError"

(***************************************************************************)
(* C21.  A tick of the flush loop.                                         *)
(***************************************************************************)
\* C21: a tick of flush_auth_queue on a queue of n records removes the first
\* min(batch size, n) of them, in order, and writes them in one transaction:
\* afterwards the table holds a row for each record of the batch, in queue
\* order, or is as it was; no authorization code has two rows.
C21_TickWritesHeadBatchOnce ==
    [][\A write \in WriteOutcomes :
           auth_queue # <<>> /\ FlushAuthQueue(write) =>
               LET n == IF Len(auth_queue) < FlushBatchSize THEN Len(auth_queue)
                        ELSE FlushBatchSize
               IN  /\ auth_queue' = SubSeq(auth_queue, n + 1, Len(auth_queue))
                   /\ \/ authorizations' = authorizations
                      \/ /\ Len(authorizations') = Len(authorizations) + n
                         /\ \A i \in 1..Len(authorizations) :
                                authorizations'[i] = authorizations[i]
                         /\ \A i \in 1..n :
                                authorizations'[Len(authorizations) + i].authorization_code
                                    = auth_queue[i].authorization_code
                   /\ \A i, j \in DOMAIN authorizations' :
                          authorizations'[i].authorization_code
                              = authorizations'[j].authorization_code => i = j]_vars

\* A full batch written from a longer queue, and a batch that failed.
C21_Witness ==
    /\ \E i \in DOMAIN flush_log :
           /\ flush_log[i].written
           /\ Len(flush_log[i].batch) = FlushBatchSize
           /\ Len(flush_log[i].before) > FlushBatchSize
           /\ \A r \in Range(flush_log[i].batch) :
                  RowIndex(authorizations, r.authorization_code) # 0
    /\ \E i \in DOMAIN flush_log : ~flush_log[i].written

(***************************************************************************)
(* C22.  The write-behind queue is bounded.                                *)
(***************************************************************************)
\* C22: the queue never holds more records than its capacity; an append to a
\* full queue goes through and discards exactly the oldest record: the others
\* keep their order and the new record is last. An append to a queue that is
\* not full discards nothing.
C22_AppendEvictsOldest ==
    [][Enqueue =>
           /\ Len(auth_queue') <= QueueCapacity
           /\ auth_queue'[Len(auth_queue')].authorization_code = queued_total'
           /\ IF Len(auth_queue) = QueueCapacity
              THEN /\ Len(auth_queue') = QueueCapacity
                   /\ \A i \in 1..(QueueCapacity - 1) : auth_queue'[i] = auth_queue[i + 1]
              ELSE /\ Len(auth_queue') = Len(auth_queue) + 1
                   /\ \A i \in DOMAIN auth_queue : auth_queue'[i] = auth_queue[i]]_vars

\* A full queue from which appends alone removed the oldest record.
C22_Witness ==
    /\ flush_log = <<>>
    /\ Len(auth_queue) = QueueCapacity
    /\ queued_total = QueueCapacity + 1
    /\ auth_queue[1].authorization_code = 2
    /\ auth_queue[QueueCapacity].authorization_code = QueueCapacity + 1

(***************************************************************************)
(* C23.  Shutdown drains the queue.                                        *)
(***************************************************************************)
\* C23: when the flush loop has been stopped at shutdown, every record that
\* was on the write-behind queue when shutdown began has its row in the
\* authorizations table.
C23_ShutdownDrainsQueue ==
    ~app_running /\ flush_task = "cancelled" =>
        \A r \in Records(auth_queue) : RowIndex(authorizations, r.authorization_code) # 0

(***************************************************************************)
(* C24.  The order of the merchant rules.                                  *)
(***************************************************************************)
\* The rows of a table, most recently created first.
MostRecentFirst(rows) == [i \in DOMAIN rows |-> rows[Len(rows) + 1 - i]]

\* C24: evaluate decides on the merchant by the principal's active merchant
\* rules taken most recently created first: its decision is the one the
\* stages give with the rules in that order, so that of two active matching
\* rules with opposite actions the more recently created one decides.
C24_MostRecentRuleDecides ==
    [][\A req \in RuleRequests : \A rules \in RowOrders(ActiveRows(merchant_rules)) :
           /\ req.merchant # NoMerchant
           /\ Len(ActiveRows(spending_limits)) <= 1
           /\ Evaluate(1, req, rules)
           => session'[1].decision =
                  EvaluateStages(session'[1].limits, session'[1].usage, req,
                                 MostRecentFirst(ActiveRows(merchant_rules)),
                                 category_rules)]_vars

(***************************************************************************)
(* C25.  The approval threshold.                                           *)
(***************************************************************************)
\* C25: when require_approval_above is set, 0 included, and all limit and
\* policy stages pass, evaluate allows and sets requires_human_approval
\* exactly when the amount is above the threshold.
C25_ApprovalAboveThreshold ==
    [][\A req \in RuleRequests : \A rules \in RowOrders(ActiveRows(merchant_rules)) :
           /\ Evaluate(1, req, rules)
           /\ session'[1].decision.allowed
           /\ session'[1].limits.require_approval_above # NoAmount
           => session'[1].decision.requires_human_approval
                  = (req.amount > session'[1].limits.require_approval_above)]_vars

(***************************************************************************)
(* C26.  What changes the usage counters.                                  *)
(***************************************************************************)
\* The four counters of a usage row.
Counters(u) ==
    <<u.daily_spent, u.monthly_spent, u.daily_transaction_count,
      u.monthly_transaction_count>>

\* The usage row of the principal as committed; a principal without a row
\* has spent nothing.
CommittedUsage ==
    IF usage_tracking = <<>> THEN DefaultUsage(today) ELSE usage_tracking[1]

\* C26: the committed usage counters of the principal change only by the
\* increment for an ALLOW decision, which adds the request amount to both
\* spent counters and 1 to both counts, after the lazy rollover, and by the
\* rollover alone; a DENY decision changes them by the rollover at most.
C26_CountersChangeByIncrementOrRollover ==
    [][LET before == MaybeResetCounters(CommittedUsage, today)
           after == Counters(CommittedUsage')
       IN  after # Counters(CommittedUsage) =>
               \/ after = Counters(before)
               \/ \E h \in Handlers :
                      /\ session[h].pc = "evaluated"
                      /\ session[h].decision.allowed
                      /\ after = <<before.daily_spent + session[h].request.amount,
                                   before.monthly_spent + session[h].request.amount,
                                   before.daily_transaction_count + 1,
                                   before.monthly_transaction_count + 1>>]_vars

(***************************************************************************)
(* C27.  A failed token verification ends authorize.                       *)
(***************************************************************************)
\* C27: when token verification fails, authorize returns DENY with the
\* verifier's reason and no code, and leaves the consent cache, the
\* authorization cache, the write-behind queue and the authorizations table
\* as they were, whatever the database would have done.
C27_TokenFailureStopsAuthorize ==
    [][\A id \in DOMAIN consents : \A t \in Transactions :
           /\ VerifyToken(DelegationToken(consents[id]), t, now) # "ok"
           /\ \E store \in StoreOutcomes, write \in WriteOutcomes, code \in 1..MaxCodes :
                  Authorize(id, t, store, write, code)
           => /\ response'.decision = "DENY"
              /\ response'.reason = VerifyToken(DelegationToken(consents[id]), t, now)
              /\ response'.authorization_code = 0
              /\ consent_cache' = consent_cache
              /\ cache_op' = cache_op
              /\ auth_cache' = auth_cache
              /\ auth_queue' = auth_queue
              /\ authorizations' = authorizations]_vars

\* A DENY for the amount while the consent cache holds an entry past its
\* TTL, which a look into the cache would have removed.
C27_Witness ==
    /\ response.decision = "DENY"
    /\ response.reason = "amount_exceeded"
    /\ \E k \in DOMAIN consent_cache : now - consent_cache[k].cached_at >= CACHE_TTL_SECONDS

(***************************************************************************)
(* C28: a consent is valid exactly when is_active is true, revoked_at is   *)
(* unset and now < expires_at, and get_active_consent finds a consent      *)
(* exactly when it is valid; revoke_consent sets revoked_at to the current *)
(* time and clears is_active while the record stays; no step removes a     *)
(* consent, clears its revoked_at or sets is_active back to true, so a     *)
(* consent that is not valid is not valid after any step.                  *)
(***************************************************************************)
C28_ActiveExactlyWhenValid ==
    \A id \in 1..MaxConsents :
        GetActiveConsent(consents, id, now)
            <=> /\ id \in DOMAIN consents
                /\ consents[id].is_active
                /\ consents[id].revoked_at = NoTime
                /\ now < consents[id].expires_at
                /\ ConsentIsValid(consents[id], now)

C28_RevokedOrExpiredStaysInvalid ==
    \A id \in DOMAIN consents :
        /\ id \in DOMAIN consents'
        /\ consents[id].revoked_at # NoTime => consents'[id].revoked_at # NoTime
        /\ ~consents[id].is_active => ~consents'[id].is_active
        /\ ~ConsentIsValid(consents[id], now) => ~ConsentIsValid(consents'[id], now')
        /\ RevokeConsent(id) => /\ consents'[id].revoked_at = now
                                /\ ~consents'[id].is_active
                                /\ Len(consents') = Len(consents)

C28_ConsentValidity ==
    /\ []C28_ActiveExactlyWhenValid
    /\ [][C28_RevokedOrExpiredStaysInvalid]_vars

\* A consent revoked at an earlier time, and one that expired unrevoked.
C28_Witness ==
    /\ \E id \in DOMAIN consents :
           /\ consents[id].revoked_at # NoTime
           /\ consents[id].revoked_at < now
           /\ consents[id].expires_at > now
           /\ ~GetActiveConsent(consents, id, now)
    /\ response.decision = "DENY"
    /\ response.reason = "consent_invalid"

(***************************************************************************)
(* C29: _check_consent_cached returns a cached snapshot only if it was     *)
(* cached less than CACHE_TTL_SECONDS ago and the snapshot is active, not  *)
(* revoked and not past its expires_at; an entry older than the TTL is     *)
(* removed and the consent store is consulted; a cached entry that fails   *)
(* its validity check is treated as a miss, so the consent store is        *)
(* consulted, and the entry is never itself returned.                      *)
(***************************************************************************)
\* The cache entry of consent id.
C29_Cached(id) == consent_cache[CacheIndex(consent_cache, id)]

\* The call consulted the consent store: a store that fails or hangs decides
\* how the call ends.
C29_StoreConsulted(store) ==
    /\ store = "fails" => consent_check'.result = "raises"
    /\ store = "hangs" => consent_check'.result = "waits"

C29_SnapshotReturnedOnlyFreshAndValid ==
    \A id \in 1..2, store \in StoreOutcomes :
        /\ CheckConsent(id, store)
        /\ consent_check'.from_cache
        => /\ CacheIndex(consent_cache, id) # 0
           /\ now - C29_Cached(id).cached_at < CACHE_TTL_SECONDS
           /\ C29_Cached(id).data.is_active
           /\ ParseDate(C29_Cached(id).data.revoked_at) = NoTime
           /\ ParseDate(C29_Cached(id).data.expires_at) > now

C29_OverAgeEntryRemoved ==
    \A id \in 1..2, store \in StoreOutcomes :
        /\ CacheIndex(consent_cache, id) # 0
        /\ now - C29_Cached(id).cached_at >= CACHE_TTL_SECONDS
        /\ CheckConsent(id, store)
        => /\ C29_StoreConsulted(store)
           /\ \/ CacheIndex(consent_cache', id) = 0
              \/ consent_cache'[CacheIndex(consent_cache', id)].cached_at = now

C29_InvalidHitIsMiss ==
    \A id \in 1..2, store \in StoreOutcomes :
        /\ CachedHit(consent_cache, id, now)
        /\ ~CachedValid(C29_Cached(id).data, now)
        /\ CheckConsent(id, store)
        => /\ C29_StoreConsulted(store)
           /\ ~consent_check'.from_cache

C29_CachedSnapshotChecked ==
    [][/\ C29_SnapshotReturnedOnlyFreshAndValid
       /\ C29_OverAgeEntryRemoved
       /\ C29_InvalidHitIsMiss]_vars

(***************************************************************************)
(* C30: UCANService.validate rejects a token when the token itself or any  *)
(* token anywhere in its proof chain is expired, so a derived token is not *)
(* accepted after an ancestor has expired even when its own exp is later;  *)
(* delegate refuses to derive a token from an expired parent.              *)
(***************************************************************************)
\* The token validate was last called with, as the holder presented it.
C30_Presented(validation, chain) ==
    Tamper(SubSeq(chain, 1, validation.k), validation.tamper)

C30_ValidateRejectsExpiredChain ==
    /\ ucan_validation' # ucan_validation
    /\ \E i \in DOMAIN C30_Presented(ucan_validation', ucan_chain) :
           UcanIsExpired(C30_Presented(ucan_validation', ucan_chain)[i], ucan_now)
    => ucan_validation'.result \in {"UCANValidationError", "UCANCapabilityError"}

C30_DelegateRefusesExpiredParent ==
    \A k \in DOMAIN ucan_chain :
        /\ UcanIsExpired(ucan_chain[k], ucan_now)
        /\ Delegate(k, SomeList(<<Cap(ConsentResource, "purchase", 1)>>), 1)
        => /\ ucan_outcome' = "UCANValidationError"
           /\ ucan_chain' = ucan_chain

C30_ExpiredAncestorRejected ==
    [][C30_ValidateRejectsExpiredChain /\ C30_DelegateRefusesExpiredParent]_vars

\* A derived token that outlives its expired root was presented untouched
\* and rejected, after delegate had refused the expired root as a parent.
C30_Witness ==
    /\ Len(ucan_chain) >= 2
    /\ UcanIsExpired(ucan_chain[1], ucan_now)
    /\ ~UcanIsExpired(ucan_chain[Len(ucan_chain)], ucan_now)
    /\ ucan_chain[Len(ucan_chain)].exp > ucan_chain[1].exp
    /\ ucan_validation.k = Len(ucan_chain)
    /\ ucan_validation.tamper = "none"
    /\ ucan_validation.result = "UCANValidationError"
    /\ ucan_outcome = "UCANValidationError"

(***************************************************************************)
(* C31: attenuation and delegation never modify the token they are applied *)
(* to.  After Biscuit.attenuate (BiscuitService.attenuate_token) the token *)
(* it was called on has the authority block, block list and token_id it    *)
(* had before, and the derived token has an id no token had before, the    *)
(* same authority block and the parent's blocks followed by the one new    *)
(* block.  After UCANService.delegate the parent and its proofs are as     *)
(* before, and a derived token is a new token on top of them.              *)
(***************************************************************************)
C31_AttenuateLeavesParent ==
    \A m \in {1, NoAmount}, ms \in {{}, {"delta"}} :
        BiscuitAttenuateToken(m, ms, {})
        => /\ biscuit_parent' = biscuit
           /\ biscuit'.token_id # biscuit.token_id
           /\ biscuit'.token_id \notin 1..biscuit_minted
           /\ biscuit'.authority = biscuit.authority
           /\ biscuit'.blocks = biscuit.blocks \o <<AttenuationBlock(m, ms, {})>>

C31_DelegateLeavesParent ==
    \A k \in DOMAIN ucan_chain,
       caps \in {NoList, SomeList(<<Cap(ConsentResource, "purchase", 1)>>)} :
        Delegate(k, caps, 1)
        => /\ \A i \in 1..k : i \in DOMAIN ucan_chain' /\ ucan_chain'[i] = ucan_chain[i]
           /\ ucan_chain' # ucan_chain => /\ Len(ucan_chain') = k + 1
                                          /\ ucan_outcome' = "ok"

C31_DerivationLeavesParent ==
    [][C31_AttenuateLeavesParent /\ C31_DelegateLeavesParent]_vars

\* A token attenuated twice, its parent with the one block it had, next to a
\* UCAN delegated from a root that is still the first of the chain.
C31_Witness ==
    /\ biscuit_parent.token_id # 0
    /\ Len(biscuit_parent.blocks) = 1
    /\ Len(biscuit.blocks) = 2
    /\ biscuit.token_id # biscuit_parent.token_id
    /\ SubSeq(biscuit.blocks, 1, 1) = biscuit_parent.blocks
    /\ Len(ucan_chain) >= 2
    /\ ucan_outcome = "ok"

(***************************************************************************)
(* C32: whenever delegate_to_sub_agent is called with restricted_actions   *)
(* and/or restricted_amount and returns a token, every capability of that  *)
(* token has an action in restricted_actions (when given) and a max_amount *)
(* no greater than restricted_amount (when given); when no capability of   *)
(* the parent matches restricted_actions the token carries no capability   *)
(* (or the call fails), never all of the parent's capabilities.            *)
(***************************************************************************)
C32_SubAgentActions ==
    {NoList, SomeList(<<"purchase">>), SomeList(<<"search">>),
     SomeList(<<"purchase", "search">>)}

\* Some capability of the parent matches one of the restricted actions.
C32_SomeParentCapabilityMatches(parent, restricted_actions) ==
    \E p \in Range(parent.att) :
        p.action = "*" \/ p.action \in Range(restricted_actions.list)

C32_SubAgentTokenIsRestricted ==
    [][\A k \in DOMAIN ucan_chain, restricted_amount \in UcanAmounts \cup {NoAmount},
          restricted_actions \in C32_SubAgentActions :
           /\ DelegateToSubAgent(k, restricted_amount, restricted_actions)
           /\ ucan_outcome' = "ok"
           => LET att == ucan_chain'[k + 1].att
              IN  /\ \A c \in Range(att) :
                         /\ restricted_actions.given
                                => c.action \in Range(restricted_actions.list)
                         /\ restricted_amount # NoAmount
                                => /\ c.caveats.max_amount # NoAmount
                                   /\ c.caveats.max_amount <= restricted_amount
                  /\ /\ restricted_actions.given
                     /\ ~C32_SomeParentCapabilityMatches(ucan_chain[k], restricted_actions)
                     => att = <<>>]_vars

(***************************************************************************)
(* C33: verify_agent_capability(ucan, action, amount) returns true for a   *)
(* token issued by create_agent_ucan exactly when the token is unexpired   *)
(* and has a capability for that action whose max_amount caveat is at      *)
(* least amount: it accepts no amount above max_amount and rejects no      *)
(* action and amount the token covers.                                     *)
(***************************************************************************)
\* The token has a capability for the action with max_amount >= amount.
C33_Covers(ucan, action, amount) ==
    \E c \in Range(ucan.att) :
        /\ c.action = action
        /\ c.caveats.max_amount # NoAmount
        /\ c.caveats.max_amount >= amount

C33_VerifyAgentCapabilityExact ==
    [][\A action \in {"purchase", "search"}, amount \in 0..(MaxUcanAmount + 1) :
           VerifyAgentCapability(action, amount)
           => (ucan_validation'.result = "True"
                  <=> /\ ~UcanIsExpired(ucan_chain[Len(ucan_chain)], ucan_now)
                      /\ C33_Covers(ucan_chain[Len(ucan_chain)], action, amount))]_vars

(***************************************************************************)
(* C34: when several RulesEngine.evaluate calls for a principal that has   *)
(* no stored spending limits and no usage record run concurrently, the     *)
(* principal has at most one SpendingLimit row and one UsageTracking row   *)
(* at any time, exactly one of each once a request has been recorded, and  *)
(* each of those calls and every later evaluate returns a decision         *)
(* instead of failing on a duplicate or conflicting row.                   *)
(***************************************************************************)
C34_FirstRequestsCreateOneRowEach ==
    /\ Len(spending_limits) <= 1
    /\ Len(usage_tracking) <= 1
    /\ authorization_logs # <<>> => Len(spending_limits) = 1 /\ Len(usage_tracking) = 1
    /\ \A h \in Handlers : ~session[h].decision.raised

(***************************************************************************)
(* C35: when the requests of a principal are processed one at a time, each *)
(* evaluate followed on ALLOW by record_transaction before the next, and   *)
(* the limits are not lowered, daily_spent <= daily_limit and              *)
(* monthly_spent <= monthly_limit hold in every reachable state: they hold *)
(* at the start and every step that does not lower a limit keeps them.  A  *)
(* request that brings a total exactly to its limit, the other total not   *)
(* above its limit, is allowed.                                            *)
(***************************************************************************)
\* The limits in force: the active row, or the defaults of the row that
\* the first evaluate creates.
C35_Limits(table) ==
    IF ActiveRows(table) = <<>> THEN DefaultLimits ELSE ActiveRows(table)[1]

C35_SpentWithinLimits(usage, limits) ==
    usage # <<>> => /\ usage[1].daily_spent <= C35_Limits(limits).daily_limit
                    /\ usage[1].monthly_spent <= C35_Limits(limits).monthly_limit

C35_LimitsNotLowered ==
    /\ C35_Limits(spending_limits').daily_limit >= C35_Limits(spending_limits).daily_limit
    /\ C35_Limits(spending_limits').monthly_limit >= C35_Limits(spending_limits).monthly_limit

C35_TotalReachesLimit(request) ==
    LET limits == C35_Limits(spending_limits)
        usage == MaybeResetCounters(IF usage_tracking = <<>> THEN DefaultUsage(today)
                                    ELSE usage_tracking[1], today)
    IN  /\ request.amount <= limits.per_transaction_limit
        /\ usage.daily_spent + request.amount <= limits.daily_limit
        /\ usage.monthly_spent + request.amount <= limits.monthly_limit
        /\ \/ usage.daily_spent + request.amount = limits.daily_limit
           \/ usage.monthly_spent + request.amount = limits.monthly_limit

C35_SequentialSpendingWithinLimits ==
    /\ C35_SpentWithinLimits(usage_tracking, spending_limits)
    /\ [][/\ C35_SpentWithinLimits(usage_tracking, spending_limits) /\ C35_LimitsNotLowered
             => C35_SpentWithinLimits(usage_tracking', spending_limits')
          /\ \A request \in {[amount |-> 300, merchant |-> NoMerchant,
                              category |-> NoCategory]} :
                 C35_TotalReachesLimit(request) /\ Evaluate(1, request, <<>>)
                 => session'[1].decision.allowed]_vars

\* Three requests of 300 recorded over two days of one month bring
\* monthly_spent to a monthly_limit of 900, the last one approved.
C35_Witness ==
    /\ usage_tracking # <<>>
    /\ usage_tracking[1].monthly_spent = C35_Limits(spending_limits).monthly_limit
    /\ usage_tracking[1].daily_spent = 300
    /\ Len(authorization_logs) = 3
    /\ authorization_logs[3] = "approved"

(***************************************************************************)
(* C36: however many times start_background_worker is called, at most one  *)
(* flush-loop task is ever created, and whenever                           *)
(* _background_worker_started is true a flush-loop task has been           *)
(* scheduled: a call made while no event loop is running does not keep a   *)
(* later call, made with a running loop, from starting the worker.         *)
(***************************************************************************)
C36_StartedFlagMeansTaskScheduled ==
    /\ [](background_worker_started => flush_task \in {"sleeping", "cancelled"})
    /\ [][\A loop_running \in BOOLEAN :
              StartBackgroundWorker(loop_running)
              => /\ flush_task # "none" => flush_task' = flush_task
                 /\ loop_running => flush_task' = "sleeping"]_vars

(***************************************************************************)
(* C37: RulesEngine.evaluate returns a decision for every configuration of *)
(* active rules that the rules API can create, including two active        *)
(* category rules for the same principal and category with different       *)
(* actions; the category stage then yields one outcome, not an error.      *)
(***************************************************************************)
C37_EvaluateDecidesUnderAnyRules ==
    [][\A request \in RuleRequests, rules \in RowOrders(ActiveRows(merchant_rules)) :
           Evaluate(1, request, rules)
           => /\ ~session'[1].decision.raised
              /\ session'[1].decision.reason
                     \in {"per_transaction_limit", "merchant_blocked", "category_blocked",
                          "daily_limit", "monthly_limit", "All rules passed"}]_vars

(***************************************************************************)
(* C38: while the flush loop is running with weak fairness, the durable    *)
(* store takes every write and the arrivals come to an end, every record   *)
(* on the write-behind queue is eventually written to the authorizations   *)
(* table, no authorization code ever has two rows, and the queue           *)
(* eventually becomes empty; a tick on an empty queue writes nothing.      *)
(***************************************************************************)
C38_Queued(code) ==
    \E i \in DOMAIN auth_queue : auth_queue[i].authorization_code = code

C38_Rows(code) ==
    {i \in DOMAIN authorizations : authorizations[i].authorization_code = code}

C38_QueueDrains ==
    /\ \A code \in 1..MaxQueued :
           (flush_task = "sleeping" /\ C38_Queued(code))
               ~> (Cardinality(C38_Rows(code)) = 1 /\ ~C38_Queued(code))
    /\ (flush_task = "sleeping") ~> (auth_queue = <<>>)
    /\ [](\A code \in 1..MaxQueued : Cardinality(C38_Rows(code)) <= 1)
    /\ [][\A write \in WriteOutcomes :
              auth_queue = <<>> /\ FlushAuthQueue(write)
              => authorizations' = authorizations /\ flush_log' = flush_log]_vars

\* A queue longer than a batch was drained by two ticks and is empty, each
\* of its records in the table.
C38_Witness ==
    /\ flush_task = "sleeping"
    /\ auth_queue = <<>>
    /\ Len(flush_log) = 2
    /\ Len(flush_log[1].before) > FlushBatchSize
    /\ \A r \in Range(flush_log[1].before) :
           Cardinality(C38_Rows(r.authorization_code)) = 1

====
